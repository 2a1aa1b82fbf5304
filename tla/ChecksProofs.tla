----------------------------- MODULE ChecksProofs -----------------------------
(***************************************************************************)
(* Proofs about Checks, for any scenarios and any number of retries: what  *)
(* is known of the chain, what the tests of the three programs find, that  *)
(* what is accepted was permitted and that what is right is not blamed.    *)
(***************************************************************************)
EXTENDS Checks, TLAPS

-------------------------------------------------------------------------------
(* The scenario *)

LEMMA ScenarioFacts ==
    ASSUME scenario \in Names
    PROVE  IsScenario(Table[scenario])
  BY ScenarioAssumption DEF Names, Table

LEMMA StateFacts ==
    ASSUME scenario \in Names
    PROVE  /\ program \in {"node", "client", "rust"} /\ IsFor(Table[scenario], program)
           /\ IsPublication(p) /\ upload \in Upload
           /\ setting \in [environment : Environment, deployment : Deployment]
           /\ \A b \in Block, f \in Form : At(b, f) \in State
           /\ Table[scenario].others \subseteq Block
           /\ Table[scenario].flaky \subseteq Requests \cup BundlrRequests
           /\ Table[scenario].height \in Block
  BY ScenarioFacts DEF IsScenario, program, p, upload, setting, At

\* What no step changes.
LEMMA SameScenario ==
    ASSUME [Next]_vars
    PROVE  scenario' = scenario
  BY DEF Next, vars, chain, NodeStep, ClientStep, RustProgramStep, StartCheck, CheckStep,
     LookUpBlock, AnswerBlock, Answers, FailBlock, FailOther, Fails, AnswerSimulation,
     AnswerCount, AnswerDetails, ValidateChosenBlock, SimulateAfterCount, EndPost,
     EndPointing, ClientStart, ReadPublication, ReadTimestampProofs, ReadFails, ReadOwner,
     OwnerFails, RustStep, RustStart, ReadPrevious, ReadChosen, ReadNext, Answered,
     RustValidate, Simulate, CountPublications, BlockByHash, ReadDetails, RequestFails,
     BlockSaves, SaveBlock, SaveByAnother, Mine, Reorg

LEMMA SameData ==
    ASSUME scenario' = scenario
    PROVE  /\ program' = program /\ p' = p /\ upload' = upload /\ setting' = setting
           /\ \A b, f : At(b, f)' = At(b, f)
  BY DEF program, p, upload, setting, At

-------------------------------------------------------------------------------
(* The first error of some tests *)

LEMMA LeastOfEight ==
    ASSUME NEW S, S \subseteq 1 .. 8, S # {}
    PROVE  \E i \in S : \A j \in S : i <= j
  <1>1. CASE 1 \in S
    BY <1>1
  <1>2. CASE 1 \notin S /\ 2 \in S
    BY <1>2
  <1>3. CASE 1 \notin S /\ 2 \notin S /\ 3 \in S
    BY <1>3
  <1>4. CASE 1 \notin S /\ 2 \notin S /\ 3 \notin S /\ 4 \in S
    BY <1>4
  <1>5. CASE S \subseteq 5 .. 8
    <2>1. CASE 5 \in S
      BY <1>5, <2>1
    <2>2. CASE 5 \notin S /\ 6 \in S
      BY <1>5, <2>2
    <2>3. CASE 5 \notin S /\ 6 \notin S /\ 7 \in S
      BY <1>5, <2>3
    <2>4. CASE S \subseteq {8}
      <3>1. PICK i \in S : i = 8
        BY <2>4
      <3>2. \A j \in S : j = 8
        BY <2>4
      <3> QED
        BY <3>1, <3>2
    <2> QED
      BY <1>5, <2>1, <2>2, <2>3, <2>4
  <1> QED
    BY <1>1, <1>2, <1>3, <1>4, <1>5

\* What FirstError returns: "none", or the error of a test that fails.
LEMMA FirstErrorOf ==
    ASSUME NEW tests, NEW n \in 0 .. 8, DOMAIN tests = 1 .. n
    PROVE  \/ FirstError(tests) = "none" /\ \A i \in 1 .. n : tests[i].holds
           \/ \E i \in 1 .. n : ~tests[i].holds /\ FirstError(tests) = tests[i].error
  <1> DEFINE failed == {i \in 1 .. n : ~tests[i].holds}
  <1>1. failed = {i \in DOMAIN tests : ~tests[i].holds}
    OBVIOUS
  <1>2. CASE failed = {}
    BY <1>1, <1>2 DEF FirstError
  <1>3. CASE failed # {}
    <2>1. \E i \in failed : \A j \in failed : i <= j
      BY <1>3, LeastOfEight
    <2>2. PICK i : i = CHOOSE k \in failed : \A j \in failed : k <= j
      OBVIOUS
    <2>3. i \in failed
      BY <2>1, <2>2
    <2>4. FirstError(tests) = tests[i].error
      BY <1>1, <1>3, <2>2 DEF FirstError
    <2> QED
      BY <2>3, <2>4
  <1> QED
    BY <1>2, <1>3

-------------------------------------------------------------------------------
(* What the tests of a submission find *)

\* The errors of the tests before the first block.
SubmissionErrors ==
    {"TIMESTAMP_PROOF_NOT_SUBMITTER", "NO_SIGNATURE_SUBMITTER", "INVALID_SIGNATURE_SUBMITTER",
     "TIMESTAMP_PROOF_INVALID_SIGNATURE", "TIMESTAMP_PROOF_INVALID_TYPE",
     "TIMESTAMP_PROOF_INVALID_DA_ID", "INVALID_EVENT_TIMESTAMP",
     "INVALID_TYPED_DATA_DEADLINE_TIMESTAMP"}

\* The submission is right as far as the tests can tell.
Submitted(q, u, st) ==
    /\ IsValidSubmitter(st, u.uploadedBy) /\ IsValidSubmitter(st, u.signedBy)
    /\ VerifyReceipt(u) /\ u.proofs.type = q.type /\ u.proofs.daId = q.daId
    /\ u.event = u.block /\ u.deadline = u.block

LEMMA EightTests ==
    ASSUME NEW t1, NEW t2, NEW t3, NEW t4, NEW t5, NEW t6, NEW t7, NEW t8
    PROVE  LET s == <<t1>> \o (<<t2, t3>> \o <<t4, t5, t6>> \o <<t7, t8>>) IN
           \/ /\ FirstError(s) = "none" /\ t1.holds /\ t2.holds /\ t3.holds /\ t4.holds
              /\ t5.holds /\ t6.holds /\ t7.holds /\ t8.holds
           \/ FirstError(s) \in {t1.error, t2.error, t3.error, t4.error, t5.error, t6.error,
                                 t7.error, t8.error}
  <1>1. PICK s : s = <<t1>> \o (<<t2, t3>> \o <<t4, t5, t6>> \o <<t7, t8>>)
    OBVIOUS
  <1>2. /\ DOMAIN s = 1 .. 8 /\ s[1] = t1 /\ s[2] = t2 /\ s[3] = t3 /\ s[4] = t4
        /\ s[5] = t5 /\ s[6] = t6 /\ s[7] = t7 /\ s[8] = t8
    BY <1>1
  <1>3. \/ FirstError(s) = "none" /\ \A i \in 1 .. 8 : s[i].holds
        \/ \E i \in 1 .. 8 : FirstError(s) = s[i].error
    BY <1>2, FirstErrorOf
  <1>4. CASE \A i \in 1 .. 8 : s[i].holds
    BY <1>1, <1>2, <1>3, <1>4
  <1>5. CASE \E i \in 1 .. 8 : FirstError(s) = s[i].error
    <2>1. PICK i \in 1 .. 8 : FirstError(s) = s[i].error
      BY <1>5
    <2>2. i \in {1, 2, 3, 4, 5, 6, 7, 8}
      BY <2>1
    <2> QED
      BY <1>1, <1>2, <2>1, <2>2
  <1> QED
    BY <1>3, <1>4, <1>5

LEMMA SubmissionTestsFind ==
    ASSUME NEW q, NEW u, NEW st
    PROVE  LET e == FirstError(SubmitterTest(u, st) \o SubmissionTests(q, u, st)) IN
           /\ e \in SubmissionErrors \cup {"none"}
           /\ e = "none" => Submitted(q, u, st)
  <1>1. PICK t1 : t1 = Test(IsValidSubmitter(st, u.uploadedBy), "TIMESTAMP_PROOF_NOT_SUBMITTER")
    OBVIOUS
  <1>2. PICK t2 : t2 = Test(u.signedBy # "none", "NO_SIGNATURE_SUBMITTER")
    OBVIOUS
  <1>3. PICK t3 : t3 = Test(IsValidSignatureSubmitter(u, st), "INVALID_SIGNATURE_SUBMITTER")
    OBVIOUS
  <1>4. PICK t4 : t4 = Test(VerifyReceipt(u), "TIMESTAMP_PROOF_INVALID_SIGNATURE")
    OBVIOUS
  <1>5. PICK t5 : t5 = Test(u.proofs.type = q.type, "TIMESTAMP_PROOF_INVALID_TYPE")
    OBVIOUS
  <1>6. PICK t6 : t6 = Test(u.proofs.daId = q.daId, "TIMESTAMP_PROOF_INVALID_DA_ID")
    OBVIOUS
  <1>7. PICK t7 : t7 = Test(IsValidEventTimestamp(u), "INVALID_EVENT_TIMESTAMP")
    OBVIOUS
  <1>8. PICK t8 : t8 = Test(IsValidTypedDataDeadlineTimestamp(u),
                            "INVALID_TYPED_DATA_DEADLINE_TIMESTAMP")
    OBVIOUS
  <1>9. SubmitterTest(u, st) \o SubmissionTests(q, u, st)
            = <<t1>> \o (<<t2, t3>> \o <<t4, t5, t6>> \o <<t7, t8>>)
    BY <1>1, <1>2, <1>3, <1>4, <1>5, <1>6, <1>7, <1>8
       DEF SubmitterTest, SubmissionTests, TimestampProofTests
  <1>10. PICK e : e = FirstError(SubmitterTest(u, st) \o SubmissionTests(q, u, st))
    OBVIOUS
  <1>11. \/ /\ e = "none" /\ t1.holds /\ t2.holds /\ t3.holds /\ t4.holds
            /\ t5.holds /\ t6.holds /\ t7.holds /\ t8.holds
         \/ e \in {t1.error, t2.error, t3.error, t4.error, t5.error, t6.error, t7.error, t8.error}
    BY <1>9, <1>10, EightTests
  <1>12. {t1.error, t2.error, t3.error, t4.error, t5.error, t6.error, t7.error, t8.error}
            = SubmissionErrors
    BY <1>1, <1>2, <1>3, <1>4, <1>5, <1>6, <1>7, <1>8 DEF Test, SubmissionErrors
  <1>13. "none" \notin SubmissionErrors
    BY DEF SubmissionErrors
  <1>14. ASSUME e = "none" PROVE Submitted(q, u, st)
    <2>1. /\ t1.holds /\ t3.holds /\ t4.holds /\ t5.holds /\ t6.holds /\ t7.holds /\ t8.holds
      BY <1>11, <1>12, <1>13, <1>14
    <2>2. IsValidSubmitter(st, u.uploadedBy)
      BY <1>1, <2>1 DEF Test
    <2>3. IsValidSubmitter(st, u.signedBy)
      BY <1>3, <2>1 DEF Test, IsValidSignatureSubmitter, ExtractAddress, VerifyMessage
    <2>4. VerifyReceipt(u)
      BY <1>4, <2>1 DEF Test
    <2>5. u.proofs.type = q.type
      BY <1>5, <2>1 DEF Test
    <2>6. u.proofs.daId = q.daId
      BY <1>6, <2>1 DEF Test
    <2>7. u.event = u.block
      BY <1>7, <2>1 DEF Test, IsValidEventTimestamp
    <2>8. u.deadline = u.block
      BY <1>8, <2>1 DEF Test, IsValidTypedDataDeadlineTimestamp
    <2> QED
      BY <2>2, <2>3, <2>4, <2>5, <2>6, <2>7, <2>8 DEF Submitted
  <1> QED
    BY <1>10, <1>11, <1>12, <1>14

-------------------------------------------------------------------------------
(* The invariant: types, failed calls, and the forms of blocks that are known *)

ChainTypes ==
    /\ scenario \in Names
    /\ form \in [Block -> Form] /\ height \in Block /\ seen \subseteq Block \X Form

NodeTypes ==
    /\ cache \in [Block -> Form \cup {0}] /\ saving \subseteq Block \X Form
    /\ request \in [Requests -> {"none", "lookup", "asked", "answered", "failed"}]
    /\ calls \in [Requests \cup BundlrRequests -> 0 .. MaxRetries + 2]
    /\ answer \in [Requests -> Form \cup {0}]
    /\ pc \in {"start", "blocks", "chain", "done"} \cup BundlrRequests

RustTypes ==
    /\ rustAt \in Requests \cup {"start", "validate", "done"}
    /\ rustAnswer \in [Requests -> Form \cup {0}]

\* A request has failed when all its calls have; what is not asked yet has not failed.
CallsInv ==
    /\ \A r \in Requests :
          /\ request[r] = "failed" => calls[r] = MaxRetries + 2
          /\ request[r] # "failed" => calls[r] <= MaxRetries + 1
    /\ pc \in {"start"} \cup BundlrRequests => \A r \in Requests : request[r] = "none"
    /\ pc = "blocks" => \A r \in Requests \ BlockRequests : request[r] = "none"
    /\ pc \in BundlrRequests =>
          calls["publication"] = 0 /\ calls["proofs"] = 0 /\ calls["owner"] <= MaxRetries + 1

\* The chain, the cache and the answers hold only what has been on the chain.
ChainKnown == \A b \in 1 .. height : <<b, form[b]>> \in seen
NodeKnown ==
    /\ saving \subseteq seen
    /\ \A b \in Block : cache[b] # 0 => <<b, cache[b]>> \in seen
    /\ \A r \in Requests : request[r] = "answered" => <<BlockOf(r), answer[r]>> \in seen
RustKnown == \A r \in Requests : rustAnswer[r] # 0 => <<BlockOf(r), rustAnswer[r]>> \in seen

LEMMA BlockOfType ==
    /\ \A r \in Requests : BlockOf(r) \in Block
    /\ \A r \in Requests \ BlockRequests : BlockOf(r) = Chosen
  BY DEF Requests, BlockRequests, BlockOf, Block, Chosen

-------------------------------------------------------------------------------
(* The chain *)

\* What only Mine and Reorg change.
LEMMA ChecksKeepChain ==
    ASSUME \/ NodeStep \/ ClientStep \/ RustProgramStep
           \/ program = "node" /\ BlockSaves /\ UNCHANGED rustVars
    PROVE  UNCHANGED chain
  BY DEF NodeStep, ClientStep, RustProgramStep, StartCheck, CheckStep,
     LookUpBlock, AnswerBlock, Answers, FailBlock, FailOther, Fails, AnswerSimulation,
     AnswerCount, AnswerDetails, ValidateChosenBlock, SimulateAfterCount, EndPost,
     EndPointing, ClientStart, ReadPublication, ReadTimestampProofs, ReadFails, ReadOwner,
     OwnerFails, RustStep, RustStart, ReadPrevious, ReadChosen, ReadNext, Answered,
     RustValidate, Simulate, CountPublications, BlockByHash, ReadDetails, RequestFails,
     BlockSaves, SaveBlock, SaveByAnother

LEMMA MineChain ==
    ASSUME ChainTypes, ChainKnown, Mine
    PROVE  ChainTypes' /\ ChainKnown' /\ seen \subseteq seen'
  <1>1. height' \in Block /\ height' = height + 1 /\ height + 1 \in Block
    BY DEF Mine, ChainTypes, Block
  <1>2. seen' = seen \cup {<<height + 1, form[height + 1]>>} /\ form' = form
    BY DEF Mine
  <1>3. form[height + 1] \in Form
    BY <1>1 DEF ChainTypes
  <1>4. ChainTypes'
    BY <1>1, <1>2, <1>3 DEF Mine, ChainTypes, Names, Table
  <1>5. ASSUME NEW b \in 1 .. height' PROVE <<b, form'[b]>> \in seen'
    <2>1. CASE b = height + 1
      BY <1>2, <2>1
    <2>2. CASE b \in 1 .. height
      BY <1>2, <2>2 DEF ChainKnown
    <2> QED
      BY <1>1, <2>1, <2>2 DEF ChainTypes, Block
  <1> QED
    BY <1>2, <1>4, <1>5 DEF ChainKnown

LEMMA ReorgChain ==
    ASSUME ChainTypes, ChainKnown, NEW n \in Block, Reorg(n)
    PROVE  ChainTypes' /\ ChainKnown' /\ seen \subseteq seen'
  <1>1. /\ height' = n /\ n <= height /\ seen' = seen \cup {<<n, 2>>}
        /\ form' = [b \in Block |-> IF b >= n THEN 2 ELSE form[b]]
    BY DEF Reorg
  <1>2. form' \in [Block -> Form] /\ <<n, 2>> \in Block \X Form
    BY <1>1 DEF ChainTypes, Form
  <1>3. ChainTypes'
    BY <1>1, <1>2 DEF Reorg, ChainTypes, Names, Table
  <1>4. ASSUME NEW b \in 1 .. height' PROVE <<b, form'[b]>> \in seen'
    <2>1. b \in Block /\ b \in 1 .. height /\ b <= n
      BY <1>1 DEF ChainTypes, Block
    <2>2. CASE b = n
      BY <1>1, <2>1, <2>2 DEF Block
    <2>3. CASE b < n
      <3>1. form'[b] = form[b]
        BY <1>1, <2>1, <2>3 DEF Block
      <3> QED
        BY <1>1, <2>1, <3>1 DEF ChainKnown
    <2> QED
      BY <2>1, <2>2, <2>3 DEF Block
  <1> QED
    BY <1>1, <1>3, <1>4 DEF ChainKnown

LEMMA ChainStep ==
    ASSUME ChainTypes, ChainKnown, [Next]_vars
    PROVE  ChainTypes' /\ ChainKnown' /\ seen \subseteq seen'
  <1>1. CASE UNCHANGED chain
    BY <1>1 DEF chain, ChainTypes, ChainKnown, Names, Table
  <1>2. CASE Mine
    BY <1>2, MineChain
  <1>3. ASSUME NEW n \in Block, Reorg(n) PROVE ChainTypes' /\ ChainKnown' /\ seen \subseteq seen'
    BY <1>3, ReorgChain
  <1>4. \/ NodeStep \/ ClientStep \/ RustProgramStep
        \/ program = "node" /\ BlockSaves /\ UNCHANGED rustVars
        \/ Mine \/ (\E n \in Block : Reorg(n)) \/ UNCHANGED chain
    BY DEF Next, vars
  <1> QED
    BY <1>1, <1>2, <1>3, <1>4, ChecksKeepChain

-------------------------------------------------------------------------------
(* The steps of a check of the node or of the client library *)

NodeInv == NodeTypes /\ CallsInv /\ NodeKnown

LEMMA ReadBlocksKeeps ==
    ASSUME NodeInv, pc \in {"start", "owner"}, NEW error, NEW first \in {"lookup", "asked"},
           ReadBlocksUnless(error, first), UNCHANGED <<chain, database, calls, answer>>
    PROVE  NodeInv'
  <1>1. \A r \in Requests : request[r] = "none" /\ calls[r] <= MaxRetries + 1
    BY DEF NodeInv, CallsInv, BundlrRequests
  <1>2. UNCHANGED <<cache, saving, calls, answer, seen>>
    BY DEF chain, database
  <1>3. CASE error # "none"
    <2>1. pc' = "done" /\ request' = request
      BY <1>3 DEF ReadBlocksUnless, End
    <2> QED
      BY <1>2, <2>1 DEF NodeInv, NodeTypes, CallsInv, NodeKnown, BundlrRequests
  <1>4. CASE error = "none"
    <2>1. /\ pc' = "blocks"
          /\ request' = [r \in Requests |-> IF r \in BlockRequests THEN first ELSE "none"]
      BY <1>4 DEF ReadBlocksUnless
    <2>2. NodeTypes'
      BY <1>2, <2>1 DEF NodeInv, NodeTypes
    <2>3. CallsInv'
      BY <1>1, <1>2, <2>1 DEF CallsInv, BundlrRequests
    <2>4. NodeKnown'
      BY <1>2, <2>1 DEF NodeInv, NodeKnown
    <2> QED
      BY <2>2, <2>3, <2>4 DEF NodeInv
  <1> QED
    BY <1>3, <1>4

LEMMA StartCheckKeeps ==
    ASSUME NodeInv, StartCheck
    PROVE  NodeInv'
  BY ReadBlocksKeeps DEF StartCheck

LEMMA ReadOwnerKeeps ==
    ASSUME NodeInv, ReadOwner
    PROVE  NodeInv'
  BY ReadBlocksKeeps DEF ReadOwner

LEMMA LookUpBlockKeeps ==
    ASSUME NodeInv, NEW r \in BlockRequests, LookUpBlock(r)
    PROVE  NodeInv'
  <1>1. r \in Requests /\ BlockOf(r) \in Block
    BY BlockOfType DEF Requests
  <1>2. request[r] = "lookup" /\ UNCHANGED <<cache, saving, calls, pc, seen>>
    BY DEF LookUpBlock, chain, database
  <1>3. calls[r] <= MaxRetries + 1 /\ pc \notin {"start"} \cup BundlrRequests
    BY <1>1, <1>2 DEF NodeInv, CallsInv
  <1>4. CASE cache[BlockOf(r)] = 0
    <2>1. request' = [request EXCEPT ![r] = "asked"] /\ answer' = answer
      BY <1>4 DEF LookUpBlock
    <2> QED
      BY <1>1, <1>2, <1>3, <2>1 DEF NodeInv, NodeTypes, CallsInv, NodeKnown
  <1>5. CASE cache[BlockOf(r)] # 0
    <2>1. /\ request' = [request EXCEPT ![r] = "answered"]
          /\ answer' = [answer EXCEPT ![r] = cache[BlockOf(r)]]
      BY <1>5 DEF LookUpBlock
    <2>2. <<BlockOf(r), cache[BlockOf(r)]>> \in seen
      BY <1>1, <1>5 DEF NodeInv, NodeKnown
    <2>3. NodeTypes' /\ CallsInv'
      BY <1>1, <1>2, <1>3, <2>1 DEF NodeInv, NodeTypes, CallsInv
    <2>4. NodeKnown'
      BY <1>1, <1>2, <2>1, <2>2 DEF NodeInv, NodeTypes, NodeKnown
    <2> QED
      BY <2>3, <2>4 DEF NodeInv
  <1> QED
    BY <1>4, <1>5

\* A request that is answered is answered from the chain.
LEMMA AnswersKeep ==
    ASSUME ChainTypes, ChainKnown, NodeInv, NEW r \in Requests, Answers(r),
           \/ saving' = saving \/ saving' = saving \cup {<<BlockOf(r), form[BlockOf(r)]>>}
    PROVE  NodeInv'
  <1>1. BlockOf(r) \in 1 .. height /\ BlockOf(r) \in Block
    BY BlockOfType DEF Answers, ChainTypes, Block
  <1>2. <<BlockOf(r), form[BlockOf(r)]>> \in seen /\ form[BlockOf(r)] \in Form
    BY <1>1 DEF ChainKnown, ChainTypes
  <1>3. /\ request[r] = "asked" /\ UNCHANGED <<seen, calls, pc, cache>>
        /\ request' = [request EXCEPT ![r] = "answered"]
        /\ answer' = [answer EXCEPT ![r] = form[BlockOf(r)]]
    BY DEF Answers, chain
  <1>4. calls[r] <= MaxRetries + 1 /\ pc \notin {"start"} \cup BundlrRequests
    BY <1>3 DEF NodeInv, CallsInv
  <1>5. NodeTypes'
    BY <1>1, <1>2, <1>3 DEF NodeInv, NodeTypes
  <1>6. CallsInv'
    BY <1>3, <1>4 DEF NodeInv, NodeTypes, CallsInv
  <1>7. NodeKnown'
    BY <1>2, <1>3 DEF NodeInv, NodeTypes, NodeKnown
  <1> QED
    BY <1>5, <1>6, <1>7 DEF NodeInv

LEMMA AnswerBlockKeeps ==
    ASSUME ChainTypes, ChainKnown, NodeInv, NEW r \in BlockRequests, AnswerBlock(r)
    PROVE  NodeInv'
  BY AnswersKeep DEF AnswerBlock, Requests

LEMMA AnswerOthersKeep ==
    ASSUME ChainTypes, ChainKnown, NodeInv, AnswerSimulation \/ AnswerCount \/ AnswerDetails
    PROVE  NodeInv'
  <1>1. PICK r \in {"simulation", "count", "details"} : Answers(r) /\ saving' = saving
    BY DEF AnswerSimulation, AnswerCount, AnswerDetails
  <1> QED
    BY <1>1, AnswersKeep DEF Requests

\* A call of a request fails.
LEMMA FailsKeeps ==
    ASSUME NodeInv, NEW r \in Requests, Fails(r), pc' \in {pc, "done"}
    PROVE  NodeInv' /\ (GivesUp(calls[r]) => calls'[r] = MaxRetries + 2)
  <1>1. /\ request[r] = "asked" /\ UNCHANGED <<seen, cache, saving, answer>>
        /\ calls' = [calls EXCEPT ![r] = @ + 1]
        /\ request' = [request EXCEPT ![r] = IF calls[r] > MaxRetries THEN "failed" ELSE @]
    BY DEF Fails, chain, database, GivesUp
  <1>2. calls[r] \in 0 .. MaxRetries + 1 /\ pc \notin {"start"} \cup BundlrRequests
    BY <1>1, RetryAssumption DEF NodeInv, CallsInv, NodeTypes
  <1>3. calls' \in [Requests \cup BundlrRequests -> 0 .. MaxRetries + 2]
    BY <1>1, <1>2, RetryAssumption DEF NodeInv, NodeTypes
  <1>4. NodeTypes'
    BY <1>1, <1>3 DEF NodeInv, NodeTypes
  <1>5. calls'[r] = calls[r] + 1
    BY <1>1 DEF NodeInv, NodeTypes
  <1>6. ASSUME NEW q \in Requests
        PROVE  /\ request'[q] = "failed" => calls'[q] = MaxRetries + 2
               /\ request'[q] # "failed" => calls'[q] <= MaxRetries + 1
    <2>1. CASE q = r
      BY <1>1, <1>2, <1>5, <2>1, RetryAssumption DEF NodeInv, NodeTypes
    <2>2. CASE q # r
      BY <1>1, <2>2 DEF NodeInv, NodeTypes, CallsInv
    <2> QED
      BY <2>1, <2>2
  <1>7. pc' \notin {"start"} \cup BundlrRequests
    BY <1>2 DEF BundlrRequests
  <1>8. pc' = "blocks" => \A q \in Requests \ BlockRequests : request'[q] = "none"
    BY <1>1 DEF NodeInv, NodeTypes, CallsInv
  <1>9. CallsInv'
    BY <1>6, <1>7, <1>8 DEF CallsInv
  <1>10. NodeKnown'
    BY <1>1 DEF NodeInv, NodeTypes, NodeKnown
  <1>11. GivesUp(calls[r]) => calls'[r] = MaxRetries + 2
    BY <1>2, <1>5, RetryAssumption DEF GivesUp
  <1> QED
    BY <1>4, <1>9, <1>10, <1>11 DEF NodeInv

LEMMA FailBlockKeeps ==
    ASSUME NodeInv, NEW r \in BlockRequests, FailBlock(r)
    PROVE  NodeInv'
  BY FailsKeeps DEF FailBlock, Requests, End

LEMMA FailOtherKeeps ==
    ASSUME NodeInv, NEW r \in Requests \ BlockRequests, FailOther(r)
    PROVE  NodeInv'
  BY FailsKeeps DEF FailOther

LEMMA ValidateKeeps ==
    ASSUME NodeInv, ValidateChosenBlock
    PROVE  NodeInv'
  <1>1. /\ pc = "blocks" /\ UNCHANGED <<seen, cache, saving, calls, answer>>
        /\ \A r \in BlockRequests : request[r] = "answered"
    BY DEF ValidateChosenBlock, chain, database
  <1>2. CASE pc' = "done" /\ request' = request
    BY <1>1, <1>2 DEF NodeInv, NodeTypes, CallsInv, NodeKnown, BundlrRequests
  <1>3. CASE /\ pc' = "chain"
             /\ request' = [r \in Requests |-> IF r \in FirstRequests THEN "asked" ELSE request[r]]
    <2>1. NodeTypes'
      BY <1>1, <1>3 DEF NodeInv, NodeTypes
    <2>2. FirstRequests \subseteq Requests \ BlockRequests
      BY DEF FirstRequests, Requests, BlockRequests
    <2>3. CallsInv'
      BY <1>1, <1>3, <2>2 DEF NodeInv, CallsInv, BundlrRequests
    <2>4. NodeKnown'
      BY <1>1, <1>3 DEF NodeInv, NodeKnown
    <2> QED
      BY <2>1, <2>3, <2>4 DEF NodeInv
  <1> QED
    BY <1>2, <1>3 DEF ValidateChosenBlock, End

LEMMA SimulateAfterCountKeeps ==
    ASSUME NodeInv, SimulateAfterCount
    PROVE  NodeInv'
  <1>1. /\ pc = "chain" /\ request["simulation"] = "none"
        /\ UNCHANGED <<seen, cache, saving, calls, answer, pc>>
        /\ request' = [request EXCEPT !["simulation"] = "asked"]
    BY DEF SimulateAfterCount, chain, database
  <1>2. "simulation" \in Requests
    BY DEF Requests
  <1> QED
    BY <1>1, <1>2 DEF NodeInv, NodeTypes, CallsInv, NodeKnown, BundlrRequests

\* The end of a check that changes nothing else.
LEMMA EndKeeps ==
    ASSUME NodeInv, pc' = "done", UNCHANGED <<seen, cache, saving, request, calls, answer>>
    PROVE  NodeInv'
  BY DEF NodeInv, NodeTypes, CallsInv, NodeKnown, BundlrRequests

LEMMA EndsKeep ==
    ASSUME NodeInv, EndPost \/ EndPointing
    PROVE  NodeInv'
  BY EndKeeps DEF EndPost, EndPointing, End, chain, database

LEMMA ReadPublicationKeeps ==
    ASSUME NodeInv, ReadPublication \/ ReadTimestampProofs
    PROVE  NodeInv'
  <1>1. /\ pc \in BundlrRequests /\ pc' \in BundlrRequests \cup {"done"}
        /\ UNCHANGED <<seen, cache, saving, request, calls, answer>>
    BY DEF ReadPublication, ReadTimestampProofs, End, chain, database, BundlrRequests
  <1> QED
    BY <1>1 DEF NodeInv, NodeTypes, CallsInv, NodeKnown, BundlrRequests

\* A call of Bundlr fails.
LEMMA BundlrCallKeeps ==
    ASSUME NodeInv, NEW r \in BundlrRequests, pc = r,
           calls' = [calls EXCEPT ![r] = calls[r] + 1],
           pc' = "done" \/ (pc' = pc /\ r = "owner" /\ ~GivesUp(calls[r])),
           UNCHANGED <<seen, cache, saving, request, answer>>
    PROVE  NodeInv' /\ (r = "owner" /\ GivesUp(calls[r]) => calls'[r] = MaxRetries + 2)
  <1>1. calls[r] \in 0 .. MaxRetries + 1 /\ \A q \in Requests : request[q] = "none"
    BY RetryAssumption DEF NodeInv, CallsInv, NodeTypes, BundlrRequests
  <1>2. calls' \in [Requests \cup BundlrRequests -> 0 .. MaxRetries + 2]
    BY <1>1, RetryAssumption DEF NodeInv, NodeTypes
  <1>3. /\ calls'[r] = calls[r] + 1
        /\ \A q \in Requests \cup BundlrRequests : q # r => calls'[q] = calls[q]
    BY DEF NodeInv, NodeTypes
  <1>4. NodeTypes'
    BY <1>2 DEF NodeInv, NodeTypes
  <1>5. r \notin Requests
    BY DEF Requests, BlockRequests, BundlrRequests
  <1>6. \A q \in Requests : calls'[q] = calls[q]
    BY <1>3, <1>5
  <1>7. GivesUp(calls[r]) => calls'[r] = MaxRetries + 2
    BY <1>1, <1>3, RetryAssumption DEF GivesUp
  <1>8. CASE pc' = "done"
    <2>1. CallsInv'
      BY <1>6, <1>8 DEF NodeInv, CallsInv, BundlrRequests
    <2> QED
      BY <1>4, <1>7, <2>1 DEF NodeInv, NodeKnown
  <1>9. CASE pc' = pc /\ r = "owner" /\ ~GivesUp(calls[r])
    <2>1. calls'["owner"] <= MaxRetries + 1
      BY <1>1, <1>3, <1>9, RetryAssumption DEF GivesUp
    <2>2. CallsInv'
      BY <1>3, <1>6, <1>9, <2>1 DEF NodeInv, CallsInv, BundlrRequests
    <2> QED
      BY <1>4, <1>7, <2>2 DEF NodeInv, NodeKnown
  <1> QED
    BY <1>8, <1>9

LEMMA ReadFailsKeeps ==
    ASSUME NodeInv, ReadFails
    PROVE  NodeInv'
  <1>1. PICK r \in BundlrRequests : pc = r
    BY DEF ReadFails, BundlrRequests
  <1>2. calls' = [calls EXCEPT ![r] = calls[r] + 1] /\ pc' = "done"
    BY <1>1 DEF ReadFails, End
  <1>3. UNCHANGED <<seen, cache, saving, request, answer>>
    BY DEF ReadFails, chain, database
  <1> QED
    BY <1>1, <1>2, <1>3, BundlrCallKeeps

LEMMA OwnerFailsKeeps ==
    ASSUME NodeInv, OwnerFails
    PROVE  NodeInv' /\ (GivesUp(calls["owner"]) => calls'["owner"] = MaxRetries + 2)
  <1>1. PICK r \in BundlrRequests : r = "owner"
    BY DEF BundlrRequests
  <1>2. pc = r /\ calls' = [calls EXCEPT ![r] = calls[r] + 1]
    BY <1>1 DEF OwnerFails
  <1>3. pc' = "done" \/ (pc' = pc /\ r = "owner" /\ ~GivesUp(calls[r]))
    BY <1>1 DEF OwnerFails, End
  <1>4. UNCHANGED <<seen, cache, saving, request, answer>>
    BY DEF OwnerFails, chain, database
  <1>5. NodeInv' /\ (r = "owner" /\ GivesUp(calls[r]) => calls'[r] = MaxRetries + 2)
    BY <1>2, <1>3, <1>4, BundlrCallKeeps
  <1> QED
    BY <1>1, <1>5

LEMMA SaveBlockKeeps ==
    ASSUME ChainTypes, NodeInv, BlockSaves
    PROVE  NodeInv'
  <1>1. PICK s \in seen : /\ cache' = [cache EXCEPT ![s[1]] = s[2]]
                          /\ saving' \subseteq saving
                          /\ UNCHANGED <<seen, request, calls, answer, pc>>
    <2>1. ASSUME NEW s \in saving, SaveBlock(s)
          PROVE  /\ s \in seen /\ cache' = [cache EXCEPT ![s[1]] = s[2]]
                 /\ saving' \subseteq saving /\ UNCHANGED <<seen, request, calls, answer, pc>>
      BY <2>1 DEF SaveBlock, chain, NodeInv, NodeKnown
    <2>2. ASSUME NEW s \in seen, SaveByAnother(s)
          PROVE  /\ cache' = [cache EXCEPT ![s[1]] = s[2]]
                 /\ saving' \subseteq saving /\ UNCHANGED <<seen, request, calls, answer, pc>>
      BY <2>2 DEF SaveByAnother, chain
    <2> QED
      BY <2>1, <2>2 DEF BlockSaves
  <1>2. s = <<s[1], s[2]>> /\ s[1] \in Block /\ s[2] \in Form
    BY DEF ChainTypes
  <1>3. NodeTypes' /\ CallsInv'
    BY <1>1, <1>2 DEF NodeInv, NodeTypes, CallsInv
  <1>4. NodeKnown'
    BY <1>1, <1>2 DEF NodeInv, NodeTypes, NodeKnown
  <1> QED
    BY <1>3, <1>4 DEF NodeInv

\* Every step.
LEMMA CheckStepKeeps ==
    ASSUME ChainTypes, ChainKnown, NodeInv, CheckStep
    PROVE  NodeInv'
  BY LookUpBlockKeeps, AnswerBlockKeeps, FailBlockKeeps, AnswerOthersKeep, FailOtherKeeps,
     ValidateKeeps, SimulateAfterCountKeeps, EndsKeep DEF CheckStep

LEMMA ClientStartKeeps ==
    ASSUME NodeInv, ClientStart
    PROVE  NodeInv'
  BY ReadPublicationKeeps, ReadFailsKeeps, ReadOwnerKeeps, OwnerFailsKeeps DEF ClientStart

LEMMA NodeInvStep ==
    ASSUME ChainTypes, ChainKnown, NodeInv, [Next]_vars
    PROVE  NodeInv'
  <1>1. seen \subseteq seen'
    BY ChainStep
  <1>2. CASE UNCHANGED nodeVars
    BY <1>1, <1>2 DEF nodeVars, NodeInv, NodeTypes, CallsInv, NodeKnown
  <1> QED
    BY <1>2, StartCheckKeeps, CheckStepKeeps, ClientStartKeeps, SaveBlockKeeps
       DEF Next, vars, NodeStep, ClientStep, RustProgramStep

-------------------------------------------------------------------------------
(* The steps of the verifier in Rust *)

RustInv == RustTypes /\ RustKnown

\* The form of a block that is mined is recorded, and the verifier goes on.
LEMMA RustAnswerKeeps ==
    ASSUME ChainTypes, ChainKnown, RustInv, seen' = seen,
           NEW r \in Requests, BlockOf(r) <= height,
           rustAnswer' = [rustAnswer EXCEPT ![r] = form[BlockOf(r)]],
           rustAt' \in Requests \cup {"start", "validate", "done"}
    PROVE  RustInv'
  <1>1. BlockOf(r) \in 1 .. height /\ BlockOf(r) \in Block
    BY BlockOfType DEF ChainTypes, Block
  <1>2. <<BlockOf(r), form[BlockOf(r)]>> \in seen /\ form[BlockOf(r)] \in Form
    BY <1>1 DEF ChainKnown, ChainTypes
  <1>3. RustTypes'
    BY <1>2 DEF RustInv, RustTypes
  <1>4. RustKnown'
    BY <1>2 DEF RustInv, RustTypes, RustKnown
  <1> QED
    BY <1>3, <1>4 DEF RustInv

\* The verifier goes on without an answer.
LEMMA RustMoveKeeps ==
    ASSUME RustInv, UNCHANGED <<seen, rustAnswer>>,
           rustAt' \in Requests \cup {"start", "validate", "done"}
    PROVE  RustInv'
  BY DEF RustInv, RustTypes, RustKnown

LEMMA AnsweredKeeps ==
    ASSUME ChainTypes, ChainKnown, RustInv, NEW r \in Requests,
           NEW next \in Requests \cup {"validate"}, Answered(r, next)
    PROVE  RustInv'
  BY RustAnswerKeeps DEF Answered, chain

LEMMA RustStepKeeps ==
    ASSUME ChainTypes, ChainKnown, RustInv, RustStep
    PROVE  RustInv'
  <1>1. CASE RustStart \/ RustValidate \/ BlockByHash \/ RequestFails
    <2>1. UNCHANGED <<seen, rustAnswer>>
      BY <1>1 DEF RustStart, RustValidate, BlockByHash, RequestFails, chain
    <2>2. rustAt' \in {"done", "previous", "simulation", "details"}
      BY <1>1 DEF RustStart, RustValidate, BlockByHash, RequestFails, Return
    <2> QED
      BY <2>1, <2>2, RustMoveKeeps DEF Requests, BlockRequests
  <1>2. CASE ReadPrevious
    BY <1>2, AnsweredKeeps DEF ReadPrevious, Requests, BlockRequests
  <1>3. CASE ReadChosen
    BY <1>3, AnsweredKeeps DEF ReadChosen, Requests, BlockRequests
  <1>4. CASE ReadNext
    BY <1>4, AnsweredKeeps DEF ReadNext, Requests, BlockRequests
  <1>5. CASE Simulate
    BY <1>5, AnsweredKeeps DEF Simulate, Requests, BlockRequests
  <1>6. CASE CountPublications \/ ReadDetails
    <2>1. PICK r \in {"count", "details"} :
             rustAnswer' = [rustAnswer EXCEPT ![r] = form[Chosen]]
      BY <1>6 DEF CountPublications, ReadDetails
    <2>2. r \in Requests \ BlockRequests
      BY DEF Requests, BlockRequests
    <2>3. BlockOf(r) = Chosen /\ Chosen <= height /\ seen' = seen
      BY <1>6, <2>2, BlockOfType DEF CountPublications, ReadDetails, chain
    <2>4. rustAt' \in {"done", "hash"}
      BY <1>6 DEF CountPublications, ReadDetails, Return
    <2> QED
      BY <2>1, <2>2, <2>3, <2>4, RustAnswerKeeps DEF Requests
  <1> QED
    BY <1>1, <1>2, <1>3, <1>4, <1>5, <1>6 DEF RustStep

LEMMA RustInvStep ==
    ASSUME ChainTypes, ChainKnown, RustInv, [Next]_vars
    PROVE  RustInv'
  <1>1. seen \subseteq seen'
    BY ChainStep
  <1>2. CASE UNCHANGED rustVars
    BY <1>1, <1>2 DEF rustVars, RustInv, RustTypes, RustKnown
  <1> QED
    BY <1>2, RustStepKeeps DEF Next, vars, NodeStep, ClientStep, RustProgramStep

-------------------------------------------------------------------------------
(* Type correctness *)

KnownInv == ChainTypes /\ ChainKnown /\ NodeInv /\ RustInv

LEMMA InitIsKnown ==
    ASSUME Init
    PROVE  KnownInv
  <1>1. /\ scenario \in Names /\ form = [b \in Block |-> 1]
        /\ height = Table[scenario].height
        /\ seen = {<<b, 1>> : b \in 1 .. Table[scenario].height}
    BY DEF Init, ChainInit
  <1>2. Table[scenario].height \in Block
    BY <1>1, StateFacts
  <1>3. height \in {1, 2, 3} /\ 1 .. height \subseteq Block
    BY <1>1, <1>2 DEF Block
  <1>4. ChainTypes
    BY <1>1, <1>2, <1>3 DEF ChainTypes, Form
  <1>5. ChainKnown
    BY <1>1, <1>3 DEF ChainKnown
  <1>6. NodeTypes
    BY RetryAssumption DEF Init, NodeInit, NodeTypes, BundlrRequests
  <1>7. CallsInv /\ NodeKnown
    BY RetryAssumption DEF Init, NodeInit, CallsInv, NodeKnown, BundlrRequests
  <1>8. RustInv
    BY DEF Init, RustInit, RustInv, RustTypes, RustKnown
  <1> QED
    BY <1>4, <1>5, <1>6, <1>7, <1>8 DEF KnownInv, NodeInv

LEMMA KnownAlways == Spec => []KnownInv
  <1>1. Init => KnownInv
    BY InitIsKnown
  <1>2. KnownInv /\ [Next]_vars => KnownInv'
    BY ChainStep, NodeInvStep, RustInvStep DEF KnownInv
  <1> QED
    BY <1>1, <1>2, PTL DEF Spec

\* The state of the chain, of a check of the node or of the client library and of the
\* verifier in Rust has its type; above all, no request is called more than
\* MaxRetries + 2 times (common/helpers.ts:126).
THEOREM ChecksTypeCorrect == Spec => []TypeOK
  <1>1. KnownInv => TypeOK
    BY DEF KnownInv, ChainTypes, NodeInv, NodeTypes, RustInv, RustTypes, TypeOK
  <1> QED
    BY <1>1, KnownAlways, PTL

-------------------------------------------------------------------------------
(* A check fails for an outage only after all the calls of a request *)

Outage ==
    {"BLOCK_CANT_BE_READ_FROM_NODE", "SIMULATION_NODE_COULD_NOT_RUN",
     "DATA_CANT_BE_READ_FROM_NODE", "exception"}

AllCallsFailed == \E r \in Requests \cup BundlrRequests : calls[r] = MaxRetries + 2

\* What a step makes of the calls: they stay, or one that was not the last fails.
LEMMA CallsGrow ==
    ASSUME NodeInv, [Next]_vars
    PROVE  \/ calls' = calls
           \/ \E r \in Requests \cup BundlrRequests :
                 calls[r] <= MaxRetries + 1 /\ calls' = [calls EXCEPT ![r] = calls[r] + 1]
  <1>1. CASE \E r \in Requests : Fails(r)
    BY <1>1 DEF Fails, NodeInv, CallsInv
  <1>2. CASE ReadFails
    <2>1. pc \in BundlrRequests /\ calls[pc] = 0 /\ calls' = [calls EXCEPT ![pc] = calls[pc] + 1]
      BY <1>2 DEF ReadFails, NodeInv, CallsInv, BundlrRequests
    <2>2. calls[pc] <= MaxRetries + 1
      BY <2>1, RetryAssumption
    <2> QED
      BY <2>1, <2>2
  <1>3. CASE OwnerFails
    BY <1>3 DEF OwnerFails, NodeInv, CallsInv, BundlrRequests
  <1>4. CASE UNCHANGED calls
    BY <1>4
  <1>5. \/ \E r \in Requests : Fails(r)
        \/ ReadFails \/ OwnerFails \/ UNCHANGED calls
    BY DEF Next, vars, nodeVars, NodeStep, ClientStep, RustProgramStep, StartCheck, CheckStep,
       LookUpBlock, AnswerBlock, Answers, FailBlock, FailOther, AnswerSimulation,
       AnswerCount, AnswerDetails, ValidateChosenBlock, SimulateAfterCount, EndPost,
       EndPointing, ClientStart, ReadPublication, ReadTimestampProofs, ReadOwner,
       BlockSaves, SaveBlock, SaveByAnother, Requests
  <1> QED
    BY <1>1, <1>2, <1>3, <1>4, <1>5

LEMMA FailedStay ==
    ASSUME NodeInv, [Next]_vars, AllCallsFailed
    PROVE  AllCallsFailed'
  <1>1. PICK q \in Requests \cup BundlrRequests : calls[q] = MaxRetries + 2
    BY DEF AllCallsFailed
  <1>2. CASE calls' = calls
    BY <1>1, <1>2 DEF AllCallsFailed
  <1>3. ASSUME NEW r \in Requests \cup BundlrRequests, calls[r] <= MaxRetries + 1,
               calls' = [calls EXCEPT ![r] = calls[r] + 1]
        PROVE  AllCallsFailed'
    <2>1. q # r
      BY <1>1, <1>3, RetryAssumption
    <2>2. calls'[q] = calls[q]
      BY <1>3, <2>1 DEF NodeInv, NodeTypes
    <2> QED
      BY <1>1, <2>2 DEF AllCallsFailed
  <1> QED
    BY <1>2, <1>3, CallsGrow

LEMMA SubmitterErrors ==
    /\ FirstError(SubmitterTest(upload, setting) \o SubmissionTests(p, upload, setting))
          \notin Outage
    /\ SubmitterError \in Outage => ~IsSupported(setting)
  <1>1. (SubmissionErrors \cup {"none"}) \cap Outage = {}
    BY DEF SubmissionErrors, Outage
  <1>2. FirstError(SubmitterTest(upload, setting) \o SubmissionTests(p, upload, setting))
            \in SubmissionErrors \cup {"none"}
    BY SubmissionTestsFind
  <1>3. "TIMESTAMP_PROOF_NOT_SUBMITTER" \notin Outage
    BY DEF Outage
  <1> QED
    BY <1>1, <1>2, <1>3 DEF SubmitterError

LEMMA ReadBlocksResult ==
    ASSUME NEW error, NEW first, ReadBlocksUnless(error, first)
    PROVE  result' \in {result, error}
  BY DEF ReadBlocksUnless, End

LEMMA PostResultIsNoOutage ==
    ASSUME request["simulation"] # "failed", request["count"] # "failed"
    PROVE  PostResult \notin Outage
  BY DEF PostResult, Outage

LEMMA DetailsResultIsNoOutage ==
    ASSUME request["details"] # "failed"
    PROVE  DetailsResult \notin Outage
  <1>1. ASSUME NEW d PROVE SignerErrorV1(d) \notin Outage /\ SignerErrorV2(d) \notin Outage
    BY DEF SignerErrorV1, SignerErrorV2, Outage
  <1>2. {"EVENT_MISMATCH", "accepted"} \cap Outage = {}
    BY DEF Outage
  <1> QED
    BY <1>1, <1>2 DEF DetailsResult

\* The steps that end a check for an outage.
LEMMA OutageEnds ==
    ASSUME NodeInv, NodeInv', [Next]_vars, result' # result, result' \in Outage
    PROVE  AllCallsFailed' \/ ~IsSupported(setting)
  <1>1. CASE StartCheck \/ ReadOwner
    BY <1>1, ReadBlocksResult, SubmitterErrors DEF StartCheck, ReadOwner
  <1>2. ASSUME NEW r \in BlockRequests, FailBlock(r) PROVE AllCallsFailed'
    <2>1. GivesUp(calls[r]) /\ r \in Requests /\ pc' = "done"
      BY <1>2 DEF FailBlock, End, Requests
    <2> QED
      BY <1>2, <2>1, FailsKeeps DEF FailBlock, AllCallsFailed
  <1>3. CASE ValidateChosenBlock
    BY <1>3 DEF ValidateChosenBlock, End, Outage
  <1>4. CASE EndPost
    <2>1. request["simulation"] = "failed" \/ request["count"] = "failed"
      BY <1>4, PostResultIsNoOutage DEF EndPost, End
    <2>2. calls' = calls
      BY <1>4 DEF EndPost
    <2> QED
      BY <2>1, <2>2 DEF NodeInv, CallsInv, AllCallsFailed, Requests
  <1>5. CASE EndPointing
    <2>1. request["details"] = "failed"
      BY <1>5, DetailsResultIsNoOutage DEF EndPointing, End
    <2>2. calls' = calls
      BY <1>5 DEF EndPointing
    <2> QED
      BY <2>1, <2>2 DEF NodeInv, CallsInv, AllCallsFailed, Requests
  <1>6. CASE ReadPublication \/ ReadTimestampProofs \/ ReadFails
    BY <1>6 DEF ReadPublication, ReadTimestampProofs, ReadFails, End, Outage
  <1>7. CASE OwnerFails
    <2>1. GivesUp(calls["owner"])
      BY <1>7 DEF OwnerFails
    <2> QED
      BY <1>7, <2>1, OwnerFailsKeeps DEF AllCallsFailed, BundlrRequests
  <1>8. \/ StartCheck \/ ReadOwner \/ (\E r \in BlockRequests : FailBlock(r))
        \/ ValidateChosenBlock \/ EndPost \/ EndPointing
        \/ ReadPublication \/ ReadTimestampProofs \/ ReadFails \/ OwnerFails
    BY DEF Next, vars, nodeVars, NodeStep, ClientStep, RustProgramStep, CheckStep,
       LookUpBlock, AnswerBlock, Answers, FailOther, AnswerSimulation,
       AnswerCount, AnswerDetails, SimulateAfterCount, ClientStart,
       BlockSaves, SaveBlock, SaveByAnother
  <1> QED
    BY <1>1, <1>2, <1>3, <1>4, <1>5, <1>6, <1>7, <1>8

\* A check fails for an outage only when every call of one of its requests has failed,
\* or when its setting is not supported (common/helpers.ts:126).
THEOREM OutageRiddenOut == Spec => []ShortOutageIsRiddenOut
  <1> DEFINE Inv == result \in Outage => AllCallsFailed \/ ~IsSupported(setting)
  <1>1. Init => Inv
    BY DEF Init, NodeInit, Outage
  <1>2. KnownInv /\ KnownInv' /\ Inv /\ [Next]_vars => Inv'
    <2> SUFFICES ASSUME KnownInv, KnownInv', Inv, [Next]_vars, result' \in Outage
                 PROVE  AllCallsFailed' \/ ~IsSupported(setting')
      OBVIOUS
    <2>1. setting' = setting /\ NodeInv /\ NodeInv'
      BY SameScenario, SameData DEF KnownInv
    <2>2. CASE result' = result
      BY <2>1, <2>2, FailedStay
    <2>3. CASE result' # result
      BY <2>1, <2>3, OutageEnds
    <2> QED
      BY <2>2, <2>3
  <1>3. Inv => ShortOutageIsRiddenOut
    BY DEF Outage, AllCallsFailed, ShortOutageIsRiddenOut
  <1> QED
    BY <1>1, <1>2, <1>3, KnownAlways, PTL DEF Spec

-------------------------------------------------------------------------------
(* What the tests of the verifier in Rust find *)

\* The errors of the tests it makes on its own.
RustTestErrors ==
    {"InvalidSignatureSubmitter", "GeneratedPublicationIdMismatch",
     "TimestampProofNotSubmitter", "InvalidEventTimestamp",
     "InvalidTypedDataDeadlineTimestamp", "BlockCantBeReadFromNode", "NotClosestBlock",
     "TimestampProofInvalidType", "TimestampProofInvalidDAID",
     "TimestampProofInvalidSignature", "InvalidPointerSetNotNeeded",
     "PublicationNoPointer", "PublicationNoneDA", "PublicationNonceInvalid",
     "PublicationSignerNotAllowed", "EventMismatch"}

LEMMA FirstErrorIn ==
    ASSUME NEW tests, NEW n \in 0 .. 8, DOMAIN tests = 1 .. n,
           \A i \in 1 .. n : tests[i].error \in RustTestErrors
    PROVE  /\ FirstError(tests) \in RustTestErrors \cup {"none"}
           /\ FirstError(tests) = "none" => \A i \in 1 .. n : tests[i].holds
  <1>1. "none" \notin RustTestErrors
    BY DEF RustTestErrors
  <1> QED
    BY <1>1, FirstErrorOf

LEMMA ProofTestsFind ==
    ASSUME NEW q, NEW u, NEW st
    PROVE  LET e == FirstError(ProofTests(q, u, st)) IN
           /\ e \in RustTestErrors \cup {"none"}
           /\ e = "none" =>
                 /\ is_valid_submitter(st, extract_address(q, u)) /\ ValidPublicationId(q)
                 /\ is_valid_submitter(st, u.uploadedBy)
                 /\ u.event = u.block /\ u.deadline = u.block
  <1>1. PICK t1 : t1 = Test(is_valid_submitter(st, extract_address(q, u)),
                            "InvalidSignatureSubmitter")
    OBVIOUS
  <1>2. PICK t2 : t2 = Test(ValidPublicationId(q), "GeneratedPublicationIdMismatch")
    OBVIOUS
  <1>3. PICK t3 : t3 = Test(is_valid_submitter(st, u.uploadedBy), "TimestampProofNotSubmitter")
    OBVIOUS
  <1>4. PICK t4 : t4 = Test(is_valid_event_timestamp(u), "InvalidEventTimestamp")
    OBVIOUS
  <1>5. PICK t5 : t5 = Test(is_valid_typed_data_deadline_timestamp(u),
                            "InvalidTypedDataDeadlineTimestamp")
    OBVIOUS
  <1>6. PICK s : s = <<t1, t2, t3, t4, t5>>
    OBVIOUS
  <1>7. s = ProofTests(q, u, st)
    BY <1>1, <1>2, <1>3, <1>4, <1>5, <1>6 DEF ProofTests
  <1>8. /\ DOMAIN s = 1 .. 5 /\ s[1] = t1 /\ s[2] = t2 /\ s[3] = t3 /\ s[4] = t4 /\ s[5] = t5
    BY <1>6
  <1>9. \A i \in 1 .. 5 : i \in {1, 2, 3, 4, 5}
    OBVIOUS
  <1>10. {t1.error, t2.error, t3.error, t4.error, t5.error} \subseteq RustTestErrors
    BY <1>1, <1>2, <1>3, <1>4, <1>5 DEF Test, RustTestErrors
  <1>11. \A i \in 1 .. 5 : s[i].error \in RustTestErrors
    BY <1>8, <1>9, <1>10
  <1>12. /\ FirstError(s) \in RustTestErrors \cup {"none"}
         /\ FirstError(s) = "none" => \A i \in 1 .. 5 : s[i].holds
    BY <1>8, <1>11, FirstErrorIn
  <1>13. ASSUME FirstError(s) = "none"
         PROVE  t1.holds /\ t2.holds /\ t3.holds /\ t4.holds /\ t5.holds
    BY <1>8, <1>12, <1>13
  <1>14. t1.holds => is_valid_submitter(st, extract_address(q, u))
    BY <1>1 DEF Test
  <1>15. t2.holds => ValidPublicationId(q)
    BY <1>2 DEF Test
  <1>16. t3.holds => is_valid_submitter(st, u.uploadedBy)
    BY <1>3 DEF Test
  <1>17. t4.holds => u.event = u.block
    BY <1>4 DEF Test, is_valid_event_timestamp
  <1>18. t5.holds => u.deadline = u.block
    BY <1>5 DEF Test, is_valid_typed_data_deadline_timestamp
  <1> QED
    BY <1>7, <1>12, <1>13, <1>14, <1>15, <1>16, <1>17, <1>18

LEMMA SixTests ==
    ASSUME NEW t1, NEW t2, NEW t3, NEW t4, NEW t5, NEW t6,
           {t1.error, t2.error, t3.error, t4.error, t5.error, t6.error} \subseteq RustTestErrors
    PROVE  LET e == FirstError(<<t1, t2>> \o <<t3, t4, t5>> \o <<t6>>) IN
           /\ e \in RustTestErrors \cup {"none"}
           /\ e = "none" => t3.holds /\ t4.holds /\ t5.holds
  <1>1. PICK s : s = <<t1, t2>> \o <<t3, t4, t5>> \o <<t6>>
    OBVIOUS
  <1>2. /\ DOMAIN s = 1 .. 6 /\ s[1] = t1 /\ s[2] = t2 /\ s[3] = t3 /\ s[4] = t4
        /\ s[5] = t5 /\ s[6] = t6
    BY <1>1
  <1>3. \A i \in 1 .. 6 : i \in {1, 2, 3, 4, 5, 6}
    OBVIOUS
  <1>4. \A i \in 1 .. 6 : s[i].error \in RustTestErrors
    BY <1>2, <1>3
  <1>5. /\ FirstError(s) \in RustTestErrors \cup {"none"}
        /\ FirstError(s) = "none" => \A i \in 1 .. 6 : s[i].holds
    BY <1>2, <1>4, FirstErrorIn
  <1> QED
    BY <1>1, <1>2, <1>5

LEMMA SevenTests ==
    ASSUME NEW t1, NEW t2, NEW t3, NEW t4, NEW t5, NEW t6, NEW t7,
           {t1.error, t2.error, t3.error, t4.error, t5.error, t6.error, t7.error}
               \subseteq RustTestErrors
    PROVE  LET e == FirstError(<<t1, t2>> \o <<t3, t4, t5>> \o <<t6, t7>>) IN
           /\ e \in RustTestErrors \cup {"none"}
           /\ e = "none" => t3.holds /\ t4.holds /\ t5.holds
  <1>1. PICK s : s = <<t1, t2>> \o <<t3, t4, t5>> \o <<t6, t7>>
    OBVIOUS
  <1>2. /\ DOMAIN s = 1 .. 7 /\ s[1] = t1 /\ s[2] = t2 /\ s[3] = t3 /\ s[4] = t4
        /\ s[5] = t5 /\ s[6] = t6 /\ s[7] = t7
    BY <1>1
  <1>3. \A i \in 1 .. 7 : i \in {1, 2, 3, 4, 5, 6, 7}
    OBVIOUS
  <1>4. \A i \in 1 .. 7 : s[i].error \in RustTestErrors
    BY <1>2, <1>3
  <1>5. /\ FirstError(s) \in RustTestErrors \cup {"none"}
        /\ FirstError(s) = "none" => \A i \in 1 .. 7 : s[i].holds
    BY <1>2, <1>4, FirstErrorIn
  <1> QED
    BY <1>1, <1>2, <1>5

\* The tests between the last block and the next request.
LEMMA ValidateTestsFind ==
    ASSUME NEW blocks, NEW number, NEW q, NEW u
    PROVE  LET e == FirstError(ChosenBlockTests(blocks, number, q.timestamp)
                        \o TimestampProofsTests(q, u) \o PointerTests(q, u)) IN
           /\ e \in RustTestErrors \cup {"none"}
           /\ e = "none" => /\ u.proofs.given /\ u.proofs.type = q.type
                            /\ u.proofs.daId = q.daId /\ u.proofs.signed
  <1>1. PICK t1, t2 : ChosenBlockTests(blocks, number, q.timestamp) = <<t1, t2>>
                      /\ t1.error \in RustTestErrors /\ t2.error \in RustTestErrors
    <2>1. PICK t1 : t1 = Test(ClosestBlocks(blocks, q.timestamp) # {}, "BlockCantBeReadFromNode")
      OBVIOUS
    <2>2. PICK t2 : t2 = Test(\A b \in ClosestBlocks(blocks, q.timestamp) :
                                  b.number \in {number, number + 1}, "NotClosestBlock")
      OBVIOUS
    <2>3. ChosenBlockTests(blocks, number, q.timestamp) = <<t1, t2>>
      BY <2>1, <2>2 DEF ChosenBlockTests
    <2>4. t1.error \in RustTestErrors /\ t2.error \in RustTestErrors
      BY <2>1, <2>2 DEF Test, RustTestErrors
    <2> QED
      BY <2>3, <2>4
  <1>2. PICK t3 : t3 = Test(u.proofs.given /\ u.proofs.type = q.type, "TimestampProofInvalidType")
    OBVIOUS
  <1>3. PICK t4 : t4 = Test(u.proofs.daId = q.daId, "TimestampProofInvalidDAID")
    OBVIOUS
  <1>4. PICK t5 : t5 = Test(VerifyTimestampProofs(u), "TimestampProofInvalidSignature")
    OBVIOUS
  <1>5. TimestampProofsTests(q, u) = <<t3, t4, t5>>
    BY <1>2, <1>3, <1>4 DEF TimestampProofsTests
  <1>6. {t3.error, t4.error, t5.error} \subseteq RustTestErrors
    BY <1>2, <1>3, <1>4 DEF Test, RustTestErrors
  <1>7. PICK t6, t7 : /\ PointerTests(q, u) \in {<<t6>>, <<t6, t7>>}
                      /\ t6.error \in RustTestErrors /\ t7.error \in RustTestErrors
    <2>1. PICK t6 : t6 = Test(u.pointer = "none", "InvalidPointerSetNotNeeded")
      OBVIOUS
    <2>2. PICK t7 : t7 = Test(u.pointer # "none", "PublicationNoPointer")
      OBVIOUS
    <2>3. PICK t8 : t8 = Test(u.pointer = "onDa", "PublicationNoneDA")
      OBVIOUS
    <2>4. PointerTests(q, u) \in {<<t6>>, <<t7, t8>>}
      BY <2>1, <2>2, <2>3 DEF PointerTests
    <2>5. {t6.error, t7.error, t8.error} \subseteq RustTestErrors
      BY <2>1, <2>2, <2>3 DEF Test, RustTestErrors
    <2> QED
      BY <2>4, <2>5
  <1>8. PICK e : e = FirstError(ChosenBlockTests(blocks, number, q.timestamp)
                                \o TimestampProofsTests(q, u) \o PointerTests(q, u))
    OBVIOUS
  <1>9. \/ e = FirstError(<<t1, t2>> \o <<t3, t4, t5>> \o <<t6>>)
        \/ e = FirstError(<<t1, t2>> \o <<t3, t4, t5>> \o <<t6, t7>>)
    BY <1>1, <1>5, <1>7, <1>8
  <1>10. /\ e \in RustTestErrors \cup {"none"}
         /\ e = "none" => t3.holds /\ t4.holds /\ t5.holds
    BY <1>1, <1>6, <1>7, <1>9, SixTests, SevenTests
  <1>11. t3.holds => u.proofs.given /\ u.proofs.type = q.type
    BY <1>2 DEF Test
  <1>12. t4.holds => u.proofs.daId = q.daId
    BY <1>3 DEF Test
  <1>13. t5.holds => u.proofs.signed
    BY <1>4 DEF Test, VerifyTimestampProofs
  <1> QED
    BY <1>8, <1>10, <1>11, <1>12, <1>13

\* The tests of the details of a profile.
LEMMA DetailsTestsFind ==
    ASSUME NEW q, NEW details, NEW matches
    PROVE  LET e == FirstError(SignerTests(q, details) \o <<Test(matches, "EventMismatch")>>) IN
           /\ e \in RustTestErrors \cup {"none"}
           /\ e = "none" => /\ q.nonce = details.nonce
                            /\ q.signer \in {details.delegate, details.owner} /\ matches
  <1> DEFINE allowed == q.signer \in {details.delegate, details.owner}
  <1>1. PICK t3 : t3 = Test(matches, "EventMismatch")
    OBVIOUS
  <1>2. t3.error \in RustTestErrors /\ (t3.holds => matches)
    BY <1>1 DEF Test, RustTestErrors
  <1>3. CASE q.type = "COMMENT"
    <2>1. PICK t1 : t1 = Test(q.nonce = details.nonce /\ allowed, "PublicationNonceInvalid")
      OBVIOUS
    <2>2. SignerTests(q, details) = <<t1>>
      BY <1>3, <2>1 DEF SignerTests, recovery_signed_typed_data
    <2>3. PICK s : s = <<t1>> \o <<t3>>
      OBVIOUS
    <2>4. DOMAIN s = 1 .. 2 /\ s[1] = t1 /\ s[2] = t3
      BY <2>3
    <2>5. t1.error \in RustTestErrors /\ (t1.holds => q.nonce = details.nonce /\ allowed)
      BY <2>1 DEF Test, RustTestErrors
    <2>6. \A i \in 1 .. 2 : s[i].error \in RustTestErrors
      BY <1>2, <2>4, <2>5
    <2>7. /\ FirstError(s) \in RustTestErrors \cup {"none"}
          /\ FirstError(s) = "none" => t1.holds /\ t3.holds
      BY <2>4, <2>6, FirstErrorIn
    <2> QED
      BY <1>1, <1>2, <2>2, <2>3, <2>5, <2>7
  <1>4. CASE q.type # "COMMENT"
    <2>1. PICK t1 : t1 = Test(q.nonce = details.nonce, "PublicationNonceInvalid")
      OBVIOUS
    <2>2. PICK t2 : t2 = Test(allowed, "PublicationSignerNotAllowed")
      OBVIOUS
    <2>3. SignerTests(q, details) = <<t1, t2>>
      BY <1>4, <2>1, <2>2 DEF SignerTests, recovery_signed_typed_data
    <2>4. PICK s : s = <<t1, t2>> \o <<t3>>
      OBVIOUS
    <2>5. DOMAIN s = 1 .. 3 /\ s[1] = t1 /\ s[2] = t2 /\ s[3] = t3
      BY <2>4
    <2>6. /\ t1.error \in RustTestErrors /\ (t1.holds => q.nonce = details.nonce)
          /\ t2.error \in RustTestErrors /\ (t2.holds => allowed)
      BY <2>1, <2>2 DEF Test, RustTestErrors
    <2>7. \A i \in 1 .. 3 : s[i].error \in RustTestErrors
      BY <1>2, <2>5, <2>6
    <2>8. /\ FirstError(s) \in RustTestErrors \cup {"none"}
          /\ FirstError(s) = "none" => t1.holds /\ t2.holds /\ t3.holds
      BY <2>5, <2>7, FirstErrorIn
    <2> QED
      BY <1>1, <1>2, <2>3, <2>4, <2>6, <2>8
  <1> QED
    BY <1>3, <1>4

-------------------------------------------------------------------------------
(* The verifier in Rust blames a simulation only after a reorg *)

ReorgInv ==
    /\ rustResult # "none" => rustAt = "done"
    /\ rustAt = "hash" \/ rustResult = "SimulationFailed" =>
          rustAnswer["simulation"] # rustAnswer["count"]

\* A check that has ended does nothing.
LEMMA DoneIsDone ==
    ASSUME rustAt = "done"
    PROVE  ~RustStep
  BY DEF RustStep, RustStart, ReadPrevious, ReadChosen, ReadNext, Answered, RustValidate,
     Simulate, CountPublications, BlockByHash, ReadDetails, RequestFails, Requests,
     BlockRequests

LEMMA StartResult ==
    ASSUME RustStart \/ RustValidate
    PROVE  /\ UNCHANGED <<chain, rustAnswer>>
           /\ \/ rustAt' = "done"
                 /\ rustResult' \in RustTestErrors \cup {"InvalidTransactionFormat"}
              \/ rustAt' \in {"previous", "simulation", "details"} /\ rustResult' = rustResult
  <1>1. CASE RustStart
    <2>1. PICK error : error = IF FromJson(p) THEN FirstError(ProofTests(p, upload, setting))
                               ELSE "InvalidTransactionFormat"
      OBVIOUS
    <2>2. error \in RustTestErrors \cup {"InvalidTransactionFormat", "none"}
      BY <2>1, ProofTestsFind
    <2>3. IF error # "none" THEN Return(error)
          ELSE rustAt' = "previous" /\ UNCHANGED rustResult
      BY <1>1, <2>1 DEF RustStart
    <2> QED
      BY <1>1, <2>2, <2>3 DEF RustStart, Return
  <1>2. CASE RustValidate
    <2>1. PICK error : error = FirstError(ChosenBlockTests(RustBlocks, Chosen, p.timestamp)
                          \o TimestampProofsTests(p, upload) \o PointerTests(p, upload))
      OBVIOUS
    <2>2. error \in RustTestErrors \cup {"none"}
      BY <2>1, ValidateTestsFind
    <2>3. IF error # "none" THEN Return(error)
          ELSE /\ rustAt' = IF p.type = "POST" THEN "simulation" ELSE "details"
               /\ UNCHANGED rustResult
      BY <1>2, <2>1 DEF RustValidate
    <2> QED
      BY <1>2, <2>2, <2>3 DEF RustValidate, Return
  <1> QED
    BY <1>1, <1>2

LEMMA DetailsReturn ==
    ASSUME ReadDetails
    PROVE  /\ rustAt = "details" /\ rustAt' = "done"
           /\ rustAnswer' = [rustAnswer EXCEPT !["details"] = form[Chosen]]
           /\ rustResult' \in RustTestErrors \cup {"accepted"}
           /\ rustResult' = "accepted" =>
                 LET s == At(Chosen, form[Chosen]) IN
                 /\ p.nonce = s.nonce /\ p.signer \in {s.owner, s.delegate}
                 /\ CrossCheckEvent(p, s.pubs + 1) /\ HasDetails(s)
  <1> DEFINE s == At(Chosen, form[Chosen])
             d == LensProfileDetails(s)
             matches == CrossCheckEvent(p, RustExpected(d))
  <1>1. PICK error : error = FirstError(SignerTests(p, d) \o <<Test(matches, "EventMismatch")>>)
    OBVIOUS
  <1>2. /\ error \in RustTestErrors \cup {"none"}
        /\ error = "none" => p.nonce = d.nonce /\ p.signer \in {d.delegate, d.owner} /\ matches
    BY <1>1, DetailsTestsFind
  <1>3. Return(IF error = "none" THEN "accepted" ELSE error)
    BY <1>1 DEF ReadDetails
  <1>4. /\ d.nonce = s.nonce /\ d.delegate = s.delegate /\ d.owner = s.owner
        /\ RustExpected(d) = s.pubs + 1
    BY DEF LensProfileDetails, RustExpected
  <1>5. "accepted" \notin RustTestErrors
    BY DEF RustTestErrors
  <1> QED
    BY <1>2, <1>3, <1>4, <1>5 DEF ReadDetails, Return

LEMMA ReorgInvStep ==
    ASSUME KnownInv, ReorgInv, [Next]_vars
    PROVE  ReorgInv'
  <1>1. CASE UNCHANGED rustVars
    BY <1>1 DEF rustVars, ReorgInv
  <1>2. CASE RustStep
    <2>1. rustAt # "done" /\ rustResult = "none"
      BY <1>2, DoneIsDone DEF ReorgInv
    <2>2. "SimulationFailed" \notin RustTestErrors
      BY DEF RustTestErrors
    <2>3. CASE RustStart \/ RustValidate
      BY <2>1, <2>2, <2>3, StartResult DEF ReorgInv
    <2>4. CASE ReadPrevious \/ ReadChosen \/ ReadNext \/ Simulate
      BY <2>1, <2>4 DEF ReadPrevious, ReadChosen, ReadNext, Simulate, Answered, ReorgInv
    <2>5. CASE CountPublications
      <3>1. /\ rustAnswer'["simulation"] = rustAnswer["simulation"]
            /\ rustAnswer'["count"] = form[Chosen]
        BY <2>5 DEF CountPublications, KnownInv, RustInv, RustTypes, Requests
      <3>2. CASE rustAt' = "hash" /\ rustResult' = rustResult
        <4>1. At(Chosen, rustAnswer["simulation"]).pubs + 1
                  # RustExpected(At(Chosen, form[Chosen]))
          BY <2>5, <3>2 DEF CountPublications, Return
        <4>2. rustAnswer["simulation"] # form[Chosen]
          BY <4>1 DEF RustExpected
        <4> QED
          BY <2>1, <3>1, <3>2, <4>2 DEF ReorgInv
      <3>3. CASE rustAt' = "done" /\ rustResult' \in {"accepted", "EventMismatch"}
        BY <3>3 DEF ReorgInv
      <3> QED
        BY <2>5, <3>2, <3>3 DEF CountPublications, Return
    <2>6. CASE BlockByHash
      BY <2>6 DEF BlockByHash, Return, ReorgInv
    <2>7. CASE ReadDetails
      BY <2>2, <2>7, DetailsReturn DEF ReorgInv
    <2>8. CASE RequestFails
      <3>1. rustAt' = "done" /\ rustResult' = ErrorOf(rustAt)
        BY <2>8 DEF RequestFails, Return
      <3>2. rustResult' # "SimulationFailed"
        BY <3>1 DEF ErrorOf
      <3> QED
        BY <3>1, <3>2 DEF ReorgInv
    <2> QED
      BY <1>2, <2>3, <2>4, <2>5, <2>6, <2>7, <2>8 DEF RustStep
  <1> QED
    BY <1>1, <1>2 DEF Next, vars, NodeStep, ClientStep, RustProgramStep

\* When the verifier in Rust says that the simulation failed, the chain it simulated on
\* was not the one it counted on (momoka-rs/src/verifier/transactions/post.rs:250).
THEOREM BlameIsAReorg == Spec => []FailedSimulationIsAReorg
  <1>1. Init => ReorgInv
    BY DEF Init, RustInit, ReorgInv
  <1>2. ReorgInv => FailedSimulationIsAReorg
    BY DEF ReorgInv, FailedSimulationIsAReorg
  <1> QED
    BY <1>1, <1>2, ReorgInvStep, KnownAlways, PTL DEF Spec

-------------------------------------------------------------------------------
(* What is accepted was permitted: the data *)

\* The fields a verifier of the node compares are all that the event promises.
LEMMA NodeEventFollows ==
    ASSUME NEW q, q.type \in Type, q.version \in {1, 2}, Recognized(q.type, q.version),
           FieldsMatch(q)
    PROVE  EventFollowsTypedData(q) /\ NoInitData(q)
  <1>1. CASE q.type = "POST" /\ q.version = 1
    BY <1>1 DEF FieldsMatch, Verifier, PostVerifierV1, EventFollowsTypedData, NoInitData,
       EventFields, PostCreatedV1, SignedFields, PostData, NotCompared
  <1>2. CASE q.type = "POST" /\ q.version = 2
    BY <1>2 DEF FieldsMatch, Verifier, PostVerifierV2, EventFollowsTypedData, NoInitData,
       EventFields, PostCreatedV2, SignedFields, PostData, NotCompared
  <1>3. CASE q.type = "COMMENT" /\ q.version = 1
    BY <1>3 DEF FieldsMatch, Verifier, CommentVerifierV1, EventFollowsTypedData, NoInitData,
       EventFields, PostCreatedV1, CommentCreatedV1, SignedFields, PostData, CommentData,
       Pointed, PointedV1, NotCompared
  <1>4. CASE q.type = "COMMENT" /\ q.version = 2
    BY <1>4 DEF FieldsMatch, Verifier, CommentVerifierV2, EventFollowsTypedData, NoInitData,
       EventFields, CommentCreatedV2, SignedFields, PostData, CommentData, Pointed, PointedV2,
       NotCompared
  <1>5. CASE q.type = "MIRROR" /\ q.version = 1
    BY <1>5 DEF FieldsMatch, Verifier, MirrorVerifierV1, EventFollowsTypedData, NoInitData,
       EventFields, MirrorCreatedV1, SignedFields, MirrorData, Pointed, PointedV1, NotCompared
  <1>6. CASE q.type = "MIRROR" /\ q.version = 2
    BY <1>6 DEF FieldsMatch, Verifier, MirrorVerifierV2, EventFollowsTypedData, NoInitData,
       EventFields, MirrorCreatedV2, SignedFields, MirrorData, Pointed, PointedV2, NotCompared
  <1>7. CASE q.type = "QUOTE" /\ q.version = 2
    BY <1>7 DEF FieldsMatch, Verifier, QuoteVerifierV2, EventFollowsTypedData, NoInitData,
       EventFields, QuoteCreatedV2, SignedFields, PostData, CommentData, Pointed, PointedV2,
       NotCompared
  <1>8. ~(q.type = "QUOTE" /\ q.version = 1)
    BY DEF Recognized
  <1> QED
    BY <1>1, <1>2, <1>3, <1>4, <1>5, <1>6, <1>7, <1>8 DEF Type

\* The verifier in Rust reads no other version, and it reads no quote.
LEMMA FromJsonIsVersion1 ==
    ASSUME NEW q, IsPublication(q), FromJson(q)
    PROVE  q.version = 1 /\ q.type \in {"POST", "COMMENT", "MIRROR"}
  <1>1. /\ DOMAIN q.value = SignedFields(q.type, q.version)
        /\ q.version \in {1, 2}
    BY DEF IsPublication
  <1>2. q.type \in {"POST", "COMMENT", "MIRROR"}
    BY DEF FromJson
  <1>3. CASE q.type = "MIRROR"
    <2>1. "profileIdPointed" \in DOMAIN q.value
      BY <1>3 DEF FromJson, Declares, MirrorValue
    <2> QED
      BY <1>1, <1>2, <1>3, <2>1 DEF SignedFields, MirrorData, Pointed, PointedV2
  <1>4. CASE q.type # "MIRROR"
    <2>1. "collectModule" \in DOMAIN q.value
      BY <1>4 DEF FromJson, Declares, PostValue, CommentValue
    <2> QED
      BY <1>1, <1>2, <1>4, <2>1
         DEF SignedFields, PostData, CommentData, Pointed, PointedV2
  <1> QED
    BY <1>3, <1>4

LEMMA RustEventFollows ==
    ASSUME NEW q, IsPublication(q), FromJson(q), NEW n, CrossCheckEvent(q, n)
    PROVE  /\ EventFollowsTypedData(q) /\ NoInitData(q) /\ q.pubId.number = n
           /\ Recognized(q.type, q.version)
  <1>1. q.version = 1 /\ q.type \in {"POST", "COMMENT", "MIRROR"}
    BY FromJsonIsVersion1
  <1>2. q.pubId.number = n
    BY DEF CrossCheckEvent
  <1>3. CASE q.type = "POST"
    BY <1>1, <1>2, <1>3 DEF CrossCheckEvent, CrossCheckPost, Same, IsEmpty, Empty,
       EventFollowsTypedData, NoInitData, EventFields, PostCreatedV1, SignedFields, PostData,
       NotCompared, Recognized
  <1>4. CASE q.type = "COMMENT"
    BY <1>1, <1>2, <1>4 DEF CrossCheckEvent, CrossCheckComment, Same, IsEmpty, Empty,
       EventFollowsTypedData, NoInitData, EventFields, PostCreatedV1, CommentCreatedV1,
       SignedFields, PostData, CommentData, Pointed, PointedV1, NotCompared, Recognized
  <1>5. CASE q.type = "MIRROR"
    BY <1>1, <1>2, <1>5 DEF CrossCheckEvent, CrossCheckMirror, Same, IsEmpty, Empty,
       EventFollowsTypedData, NoInitData, EventFields, MirrorCreatedV1, SignedFields,
       MirrorData, Pointed, PointedV1, NotCompared, Recognized
  <1> QED
    BY <1>1, <1>3, <1>4, <1>5

\* The contract executes a post only for who signed it with the nonce of the profile.
LEMMA PermitsMeans ==
    ASSUME NEW s, Permits(s)
    PROVE  s.owner # "nobody" /\ p.nonce = s.nonce /\ p.signer \in {s.owner, s.delegate}
  <1>1. PICK call : call = PostCall(p, upload.deadline)
    OBVIOUS
  <1>2. call.request.sig.signature = SignatureOf(p)
    BY <1>1 DEF PostCall, PostRequestV1, PostRequestV2, ParseSignature
  <1>3. s.owner # "nobody" /\ Recovered(call, s.nonce) \in Posters(call, s) \ {"nobody"}
    BY <1>1 DEF Permits, Executes
  <1>4. /\ SignatureOf(p).data = [value |-> call.request.data, nonce |-> s.nonce]
        /\ Recovered(call, s.nonce) = SignatureOf(p).by
    BY <1>2, <1>3 DEF Recovered
  <1>5. p.nonce = s.nonce /\ Recovered(call, s.nonce) = p.signer
    BY <1>4 DEF SignatureOf, TypedData
  <1>6. Posters(call, s) \subseteq {s.owner, s.delegate}
    BY DEF Posters
  <1> QED
    BY <1>3, <1>5, <1>6

-------------------------------------------------------------------------------
(* What is accepted was permitted: the stages of a check *)

LEMMA NodeSubmissionIsRight ==
    ASSUME scenario \in Names, program \in {"node", "client"}, IsSupported(setting),
           upload.found, upload.proofs.given, Submitted(p, upload, setting)
    PROVE  SubmissionIsRight
  <1>1. upload.proofs \in [given : BOOLEAN, type : Type, daId : {"one", "other"}, signed : BOOLEAN]
    BY StateFacts DEF Upload, TimestampProofs
  <1>2. /\ upload.proofs.given = TRUE /\ upload.proofs.signed = TRUE
        /\ upload.proofs.type = p.type /\ upload.proofs.daId = p.daId
    BY <1>1 DEF Submitted, VerifyReceipt
  <1>3. upload.proofs = [given |-> TRUE, type |-> p.type, daId |-> p.daId, signed |-> TRUE]
    BY <1>1, <1>2
  <1>4. TheSubmitter = Submitters[setting.deployment][setting.environment]
    BY DEF TheSubmitter
  <1> QED
    BY <1>3, <1>4 DEF Submitted, IsValidSubmitter, SubmissionIsRight

\* What the verifier in Rust has tested when it asks for the first block.
RustStarted ==
    /\ FromJson(p)
    /\ is_valid_submitter(setting, extract_address(p, upload))
    /\ is_valid_submitter(setting, upload.uploadedBy)
    /\ upload.event = upload.block /\ upload.deadline = upload.block

\* And when it asks for the simulation or the details.
RustValidated ==
    /\ upload.proofs.given /\ upload.proofs.type = p.type
    /\ upload.proofs.daId = p.daId /\ upload.proofs.signed

LEMMA NoStrangerSubmits ==
    ASSUME setting \in [environment : Environment, deployment : Deployment],
           IsSupported(setting)
    PROVE  get_submitters[setting.deployment][setting.environment] # "stranger"
  <1>1. CASE setting.deployment = "PRODUCTION"
    BY <1>1 DEF get_submitters, Deployment, Environment
  <1>2. CASE setting.deployment = "STAGING"
    BY <1>2 DEF get_submitters, Deployment, Environment, IsSupported, Submitters
  <1>3. CASE setting.deployment = "LOCAL"
    BY <1>3 DEF get_submitters, Deployment, Environment, IsSupported, Submitters
  <1> QED
    BY <1>1, <1>2, <1>3 DEF Deployment

LEMMA RustSubmissionIsRight ==
    ASSUME scenario \in Names, program = "rust", RustStarted, RustValidated
    PROVE  SubmissionIsRight
  <1>1. upload.proofs \in [given : BOOLEAN, type : Type, daId : {"one", "other"}, signed : BOOLEAN]
    BY StateFacts DEF Upload, TimestampProofs
  <1>2. upload.proofs = [given |-> TRUE, type |-> p.type, daId |-> p.daId, signed |-> TRUE]
    BY <1>1 DEF RustValidated
  <1>3. IsSupported(setting) /\ upload.found
    BY StateFacts DEF IsFor, program, setting, upload
  <1>4. TheSubmitter = get_submitters[setting.deployment][setting.environment]
    BY DEF TheSubmitter
  <1>5. upload.signedBy = TheSubmitter
    BY <1>3, <1>4, NoStrangerSubmits, StateFacts
       DEF RustStarted, is_valid_submitter, extract_address
  <1> QED
    BY <1>2, <1>3, <1>4, <1>5 DEF RustStarted, is_valid_submitter, SubmissionIsRight

\* What an accepted publication must be.
Permitted ==
    /\ SubmissionIsRight /\ Recognized(p.type, p.version)
    /\ EventFollowsTypedData(p) /\ NoInitData(p)
    /\ \E f \in Form : <<Chosen, f>> \in seen /\ MayPublish(At(Chosen, f))

\* What a check has established at each stage.
NodeStages ==
    /\ pc \in {"proofs", "owner"} => upload.found
    /\ pc = "owner" => upload.proofs.given
    /\ pc \in {"blocks", "chain"} => program \in {"node", "client"} /\ SubmissionIsRight
    /\ pc = "chain" => Recognized(p.type, p.version)
    /\ request["details"] = "answered" => HasDetails(At(Chosen, answer["details"]))
    /\ result = "accepted" => Permitted

RustStages ==
    /\ rustAt \notin {"start", "done"} => program = "rust" /\ RustStarted
    /\ rustAt \in {"simulation", "count", "hash", "details"} => RustValidated
    /\ rustAt \in {"count", "hash"} => /\ <<Chosen, rustAnswer["simulation"]>> \in seen
                                       /\ Permits(At(Chosen, rustAnswer["simulation"]))
    /\ rustResult = "accepted" => Permitted

\* Nothing of what was established is lost.
LEMMA EstablishedStays ==
    ASSUME scenario' = scenario, seen \subseteq seen'
    PROVE  /\ SubmissionIsRight => SubmissionIsRight'
           /\ Permitted => Permitted'
           /\ RustStarted => RustStarted'
           /\ RustValidated => RustValidated'
           /\ \A f : Permits(At(Chosen, f)) => Permits(At(Chosen, f))'
  <1>1. SubmissionIsRight => SubmissionIsRight'
    BY DEF SubmissionIsRight, TheSubmitter, program, setting, upload, p
  <1>2. Permitted => Permitted'
    BY <1>1 DEF Permitted, MayPublish, At, p
  <1>3. (RustStarted => RustStarted') /\ (RustValidated => RustValidated')
    BY DEF RustStarted, RustValidated, setting, upload, p
  <1>4. \A f : Permits(At(Chosen, f)) => Permits(At(Chosen, f))'
    BY DEF Permits, At, p, upload
  <1> QED
    BY <1>1, <1>2, <1>3, <1>4

\* Requests and pc do not go back.
LEMMA NodeStagesKept ==
    ASSUME scenario' = scenario, seen \subseteq seen', NodeStages,
           pc' \in {pc, "done"}, result' = result \/ result' # "accepted" \/ Permitted,
           \/ request'["details"] # "answered"
           \/ request'["details"] = request["details"] /\ answer'["details"] = answer["details"]
           \/ HasDetails(At(Chosen, answer'["details"]))
    PROVE  NodeStages'
  <1>1. /\ SubmissionIsRight => SubmissionIsRight'
        /\ Permitted => Permitted'
    BY EstablishedStays
  <1>2. /\ program' = program /\ p' = p /\ upload' = upload
        /\ \A b, f : At(b, f)' = At(b, f)
    BY SameData
  <1>3. /\ pc' \in {"proofs", "owner"} => upload'.found
        /\ pc' = "owner" => upload'.proofs.given
        /\ pc' = "chain" => Recognized(p'.type, p'.version)
        /\ pc' \in {"blocks", "chain"} => program' \in {"node", "client"}
    BY <1>2 DEF NodeStages
  <1>4. pc' \in {"blocks", "chain"} => SubmissionIsRight'
    BY <1>1 DEF NodeStages
  <1>5. request'["details"] = "answered" => HasDetails(At(Chosen, answer["details"]))'
    BY DEF NodeStages, HasDetails, OwnerOf, At
  <1>6. result' = "accepted" => Permitted'
    BY <1>1 DEF NodeStages
  <1> QED
    BY <1>3, <1>4, <1>5, <1>6 DEF NodeStages

LEMMA ReadBlocksStages ==
    ASSUME NodeStages, UNCHANGED <<chain, answer>>, NEW error, NEW first,
           ReadBlocksUnless(error, first), error # "accepted",
           error = "none" => program \in {"node", "client"} /\ SubmissionIsRight
    PROVE  NodeStages'
  <1>1. scenario' = scenario /\ seen' = seen /\ answer' = answer
    BY DEF chain
  <1>2. CASE error # "none"
    <2>1. pc' = "done" /\ result' = error /\ request' = request
      BY <1>2 DEF ReadBlocksUnless, End
    <2> QED
      BY <1>1, <2>1, NodeStagesKept
  <1>3. CASE error = "none"
    <2>1. pc' = "blocks" /\ result' = result
      BY <1>3 DEF ReadBlocksUnless
    <2>2. request' = [r \in Requests |-> IF r \in BlockRequests THEN first ELSE "none"]
      BY <1>3 DEF ReadBlocksUnless
    <2>3. request'["details"] = "none"
      BY <2>2 DEF Requests, BlockRequests
    <2>4. SubmissionIsRight' /\ (Permitted => Permitted') /\ program' = program
      BY <1>1, <1>3, EstablishedStays, SameData
    <2> QED
      BY <1>3, <2>1, <2>3, <2>4 DEF NodeStages
  <1> QED
    BY <1>2, <1>3

LEMMA StartStages ==
    ASSUME ChainTypes, NodeStages, program = "node", StartCheck
    PROVE  NodeStages'
  <1>1. PICK error : error = FirstError(SubmitterTest(upload, setting)
                                        \o SubmissionTests(p, upload, setting))
    OBVIOUS
  <1>2. ReadBlocksUnless(error, "lookup") /\ UNCHANGED <<chain, answer>>
    BY <1>1 DEF StartCheck
  <1>3. /\ error \in SubmissionErrors \cup {"none"}
        /\ error = "none" => Submitted(p, upload, setting)
    BY <1>1, SubmissionTestsFind
  <1>4. error # "accepted"
    BY <1>3 DEF SubmissionErrors
  <1>5. IsSupported(setting) /\ upload.found /\ upload.proofs.given
    BY StateFacts DEF ChainTypes, IsFor, setting, upload
  <1>6. error = "none" => SubmissionIsRight
    BY <1>3, <1>5, NodeSubmissionIsRight DEF ChainTypes
  <1> QED
    BY <1>2, <1>4, <1>6, ReadBlocksStages

LEMMA OwnerStages ==
    ASSUME ChainTypes, NodeStages, program = "client", ReadOwner
    PROVE  NodeStages'
  <1>1. PICK error : error = SubmitterError
    OBVIOUS
  <1>2. ReadBlocksUnless(error, "asked") /\ UNCHANGED <<chain, answer>>
    BY <1>1 DEF ReadOwner
  <1>3. PICK e : e = FirstError(SubmitterTest(upload, setting)
                                \o SubmissionTests(p, upload, setting))
    OBVIOUS
  <1>4. e \in SubmissionErrors \cup {"none"} /\ (e = "none" => Submitted(p, upload, setting))
    BY <1>3, SubmissionTestsFind
  <1>5. /\ error \in {"TIMESTAMP_PROOF_NOT_SUBMITTER", "exception", e}
        /\ error \notin {"TIMESTAMP_PROOF_NOT_SUBMITTER", "exception"} => IsSupported(setting)
    BY <1>1, <1>3 DEF SubmitterError
  <1>6. error # "accepted"
    BY <1>4, <1>5 DEF SubmissionErrors
  <1>7. upload.found /\ upload.proofs.given
    BY DEF ReadOwner, NodeStages
  <1>8. error = "none" => SubmissionIsRight
    BY <1>4, <1>5, <1>7, NodeSubmissionIsRight DEF ChainTypes
  <1> QED
    BY <1>2, <1>6, <1>8, ReadBlocksStages

\* The steps of the client library before that.
LEMMA ClientStages ==
    ASSUME NodeStages, ReadPublication \/ ReadTimestampProofs \/ ReadFails \/ OwnerFails
    PROVE  NodeStages'
  <1>1. /\ scenario' = scenario /\ seen' = seen /\ request' = request /\ answer' = answer
        /\ result' = result \/ result' # "accepted"
    BY DEF ReadPublication, ReadTimestampProofs, ReadFails, OwnerFails, End, chain
  <1>2. CASE pc' \in {pc, "done"}
    BY <1>1, <1>2, NodeStagesKept
  <1>3. CASE pc' \notin {pc, "done"}
    <2>1. \/ pc' = "proofs" /\ upload.found
          \/ pc' = "owner" /\ upload.found /\ upload.proofs.given
      BY <1>3 DEF ReadPublication, ReadTimestampProofs, ReadFails, OwnerFails, End, NodeStages
    <2>2. /\ Permitted => Permitted'
          /\ upload' = upload /\ \A b, f : At(b, f)' = At(b, f)
      BY <1>1, EstablishedStays, SameData
    <2>3. result' = "accepted" => Permitted'
      BY <1>1, <2>2 DEF NodeStages
    <2>4. request'["details"] = "answered" => HasDetails(At(Chosen, answer["details"]))'
      BY <1>1 DEF NodeStages, HasDetails, OwnerOf, At
    <2> QED
      BY <1>1, <2>1, <2>2, <2>3, <2>4 DEF NodeStages
  <1> QED
    BY <1>2, <1>3

\* The answers to the requests.
LEMMA AnswerStages ==
    ASSUME NodeInv, NodeStages, NEW r \in Requests, Answers(r),
           r = "details" => HasDetails(At(Chosen, form[Chosen]))
    PROVE  NodeStages'
  <1>1. /\ scenario' = scenario /\ seen' = seen /\ pc' = pc /\ result' = result
        /\ request' = [request EXCEPT ![r] = "answered"]
        /\ answer' = [answer EXCEPT ![r] = form[BlockOf(r)]]
    BY DEF Answers, chain
  <1>2. CASE r = "details"
    <2>1. answer'["details"] = form[Chosen]
      BY <1>1, <1>2 DEF NodeInv, NodeTypes, BlockOf
    <2> QED
      BY <1>1, <1>2, <2>1, NodeStagesKept
  <1>3. CASE r # "details"
    <2>1. request'["details"] = request["details"] /\ answer'["details"] = answer["details"]
      BY <1>1, <1>3 DEF NodeInv, NodeTypes, Requests
    <2> QED
      BY <1>1, <2>1, NodeStagesKept
  <1> QED
    BY <1>2, <1>3

LEMMA LookUpStages ==
    ASSUME NodeInv, NodeStages, NEW r \in BlockRequests, LookUpBlock(r)
    PROVE  NodeStages'
  <1>1. scenario' = scenario /\ seen' = seen /\ pc' = pc /\ result' = result
    BY DEF LookUpBlock, chain
  <1>2. request'["details"] = request["details"] /\ answer'["details"] = answer["details"]
    BY DEF LookUpBlock, NodeInv, NodeTypes, Requests, BlockRequests
  <1> QED
    BY <1>1, <1>2, NodeStagesKept

LEMMA FailStages ==
    ASSUME NodeInv, NodeStages, NEW r \in Requests, FailBlock(r) \/ FailOther(r)
    PROVE  NodeStages'
  <1>1. /\ scenario' = scenario /\ seen' = seen /\ answer' = answer /\ request[r] = "asked"
        /\ pc' \in {pc, "done"} /\ (result' = result \/ result' # "accepted")
        /\ request' = [request EXCEPT ![r] = IF GivesUp(calls[r]) THEN "failed" ELSE @]
    BY DEF FailBlock, FailOther, Fails, End, chain
  <1>2. request'["details"] # "answered" \/ request'["details"] = request["details"]
    BY <1>1 DEF NodeInv, NodeTypes, Requests
  <1> QED
    BY <1>1, <1>2, NodeStagesKept

LEMMA ValidateStages ==
    ASSUME NodeInv, NodeStages, ValidateChosenBlock
    PROVE  NodeStages'
  <1>1. scenario' = scenario /\ seen' = seen /\ answer' = answer /\ pc = "blocks"
    BY DEF ValidateChosenBlock, chain
  <1>2. CASE pc' = "done" /\ result' # "accepted" /\ request' = request
    BY <1>1, <1>2, NodeStagesKept
  <1>3. CASE /\ pc' = "chain" /\ result' = result /\ Recognized(p.type, p.version)
             /\ request' = [r \in Requests |-> IF r \in FirstRequests THEN "asked" ELSE request[r]]
    <2>1. request["details"] = "none"
      BY <1>1 DEF NodeInv, CallsInv, Requests, BlockRequests
    <2>2. request'["details"] # "answered"
      BY <1>3, <2>1 DEF Requests
    <2>3. /\ SubmissionIsRight' /\ (Permitted => Permitted')
          /\ program' = program /\ p' = p /\ program \in {"node", "client"}
      BY <1>1, EstablishedStays, SameData DEF NodeStages
    <2> QED
      BY <1>3, <2>2, <2>3 DEF NodeStages
  <1> QED
    BY <1>2, <1>3 DEF ValidateChosenBlock, End

LEMMA PubCount ==
    ASSUME NEW v, NEW s
    PROVE  LensPubCount(v, s) = s.pubs
  BY DEF LensPubCount, GetPubCount, GetProfile

\* What a check tests in the data at its end, whatever the chain says.
LEMMA EndPermitted ==
    ASSUME ChainTypes, NodeStages, pc = "chain", NEW f \in Form, <<Chosen, f>> \in seen,
           LET s == At(Chosen, f) IN
           /\ s.owner # "nobody" /\ p.nonce = s.nonce /\ p.signer \in {s.owner, s.delegate}
           /\ VerifyEventWithTypedData(p, s.pubs + 1)
    PROVE  Permitted
  <1>1. SubmissionIsRight /\ Recognized(p.type, p.version)
    BY DEF NodeStages
  <1>2. p.pubId.number = At(Chosen, f).pubs + 1 /\ FieldsMatch(p)
    BY DEF VerifyEventWithTypedData, PubIdMatches
  <1>3. MayPublish(At(Chosen, f))
    BY <1>2 DEF MayPublish
  <1>4. p.type \in Type /\ p.version \in {1, 2}
    BY StateFacts DEF ChainTypes, IsPublication
  <1>5. EventFollowsTypedData(p) /\ NoInitData(p)
    BY <1>1, <1>2, <1>4, NodeEventFollows
  <1> QED
    BY <1>1, <1>3, <1>5 DEF Permitted

LEMMA AnsweredForm ==
    ASSUME ChainTypes, NodeInv, NEW r \in Requests \ BlockRequests, request[r] = "answered"
    PROVE  answer[r] \in Form /\ <<Chosen, answer[r]>> \in seen
  <1>1. <<Chosen, answer[r]>> \in seen
    BY BlockOfType DEF NodeInv, NodeKnown
  <1> QED
    BY <1>1 DEF ChainTypes

LEMMA PostPermitted ==
    ASSUME ChainTypes, NodeInv, NodeStages, EndPost, PostResult = "accepted"
    PROVE  Permitted
  <1> DEFINE sim == At(Chosen, answer["simulation"])
             count == At(Chosen, answer["count"])
  <1>1. /\ pc = "chain"
        /\ request["simulation"] \in {"answered", "failed"}
        /\ request["count"] \in {"answered", "failed"}
    BY DEF EndPost, Settled
  <1>2. /\ request["simulation"] = "answered" /\ request["count"] = "answered"
        /\ Simulated(sim) = Expected(count)
        /\ VerifyEventWithTypedData(p, Simulated(sim))
    BY <1>1 DEF PostResult
  <1>3. {"simulation", "count"} \subseteq Requests \ BlockRequests
    BY DEF Requests, BlockRequests
  <1>4. /\ answer["simulation"] \in Form /\ <<Chosen, answer["simulation"]>> \in seen
        /\ answer["count"] \in Form
    BY <1>2, <1>3, AnsweredForm
  <1>5. count \in State
    BY <1>4, StateFacts DEF ChainTypes, Block, Chosen
  <1>6. Expected(count) = count.pubs + 1 /\ count.pubs \in Nat
    BY <1>5, PubCount DEF Expected, State
  <1>7. Permits(sim) /\ Simulated(sim) = sim.pubs + 1
    BY <1>2, <1>6, PubCount DEF Simulated
  <1>8. sim.owner # "nobody" /\ p.nonce = sim.nonce /\ p.signer \in {sim.owner, sim.delegate}
    BY <1>7, PermitsMeans
  <1> QED
    BY <1>1, <1>2, <1>4, <1>7, <1>8, EndPermitted

LEMMA DetailsPermitted ==
    ASSUME ChainTypes, NodeInv, NodeStages, EndPointing, DetailsResult = "accepted"
    PROVE  Permitted
  <1>1. PICK s : s = At(Chosen, answer["details"])
    OBVIOUS
  <1>2. PICK d : d = IF p.version = 1 THEN DetailsV1(CallsV1(s))
                     ELSE DetailsV2(CallsV2(s, WhoSignedTypedData(p)))
    OBVIOUS
  <1>3. PICK error : error = IF p.version = 1 THEN SignerErrorV1(d) ELSE SignerErrorV2(d)
    OBVIOUS
  <1>4. DetailsResult = IF request["details"] = "failed" THEN "DATA_CANT_BE_READ_FROM_NODE"
                        ELSE IF error # "none" THEN error
                        ELSE IF ~VerifyEventWithTypedData(p, d.currentPublicationId + 1)
                        THEN "EVENT_MISMATCH" ELSE "accepted"
    BY <1>1, <1>2, <1>3 DEF DetailsResult
  <1>5. error # "accepted"
    BY <1>3 DEF SignerErrorV1, SignerErrorV2
  <1>6. /\ request["details"] = "answered" /\ error = "none" /\ pc = "chain"
        /\ VerifyEventWithTypedData(p, d.currentPublicationId + 1)
    BY <1>4, <1>5 DEF EndPointing, Settled
  <1>7. answer["details"] \in Form /\ <<Chosen, answer["details"]>> \in seen
    BY <1>6, AnsweredForm DEF Requests, BlockRequests
  <1>8. HasDetails(s)
    BY <1>1, <1>6 DEF NodeStages
  <1>9. OwnerOf(s) = s.owner /\ s.owner # "nobody"
    BY <1>8 DEF HasDetails, OwnerOf
  <1>10. p.version \in {1, 2}
    BY StateFacts DEF ChainTypes, IsPublication
  <1>11. CASE p.version = 1
    <2>1. d = [sigNonce |-> s.nonce, currentPublicationId |-> s.pubs,
               dispatcherAddress |-> s.delegate, ownerOfAddress |-> s.owner]
      BY <1>2, <1>9, <1>11 DEF DetailsV1, CallsV1, SigNonces, GetPubCount, GetDispatcher
    <2>2. p.nonce = d.sigNonce /\ p.signer \in {d.dispatcherAddress, d.ownerOfAddress}
      BY <1>3, <1>6, <1>11 DEF SignerErrorV1, WhoSignedTypedData
    <2> QED
      BY <1>1, <1>6, <1>7, <1>9, <2>1, <2>2, EndPermitted
  <1>12. CASE p.version = 2
    <2>1. /\ d.nonces = s.nonce /\ d.currentPublicationId = s.pubs
          /\ d.ownerOfAddress = s.owner /\ d.isSignerApprovedExecutor = (p.signer = s.delegate)
      BY <1>2, <1>9, <1>12 DEF DetailsV2, CallsV2, Nonces, GetProfile,
         IsDelegatedExecutorApproved, WhoSignedTypedData
    <2>2. p.nonce = d.nonces /\ (p.signer = d.ownerOfAddress \/ d.isSignerApprovedExecutor)
      BY <1>3, <1>6, <1>12 DEF SignerErrorV2, WhoSignedTypedData
    <2> QED
      BY <1>1, <1>6, <1>7, <1>9, <2>1, <2>2, EndPermitted
  <1> QED
    BY <1>10, <1>11, <1>12

LEMMA EndStages ==
    ASSUME ChainTypes, NodeInv, NodeStages, EndPost \/ EndPointing
    PROVE  NodeStages'
  <1>1. /\ scenario' = scenario /\ seen' = seen /\ pc' = "done"
        /\ request' = request /\ answer' = answer
    BY DEF EndPost, EndPointing, End, chain
  <1>2. result' # "accepted" \/ Permitted
    BY PostPermitted, DetailsPermitted DEF EndPost, EndPointing, End
  <1> QED
    BY <1>1, <1>2, NodeStagesKept

LEMMA NodeStagesStep ==
    ASSUME KnownInv, NodeStages, [Next]_vars
    PROVE  NodeStages'
  <1>1. scenario' = scenario /\ seen \subseteq seen' /\ ChainTypes /\ NodeInv
    BY SameScenario, ChainStep DEF KnownInv
  <1>2. CASE UNCHANGED nodeVars
    BY <1>1, <1>2, NodeStagesKept DEF nodeVars
  <1>3. CASE BlockSaves \/ SimulateAfterCount
    <2>1. UNCHANGED <<pc, result, answer>>
      BY <1>3 DEF BlockSaves, SaveBlock, SaveByAnother, SimulateAfterCount
    <2>2. request'["details"] = request["details"]
      BY <1>1, <1>3 DEF BlockSaves, SaveBlock, SaveByAnother, SimulateAfterCount, NodeInv,
         NodeTypes, Requests
    <2> QED
      BY <1>1, <2>1, <2>2, NodeStagesKept
  <1>4. CASE program = "node" /\ StartCheck
    BY <1>1, <1>4, StartStages
  <1>5. CASE program = "client" /\ ClientStart
    BY <1>1, <1>5, OwnerStages, ClientStages DEF ClientStart
  <1>6. CASE CheckStep
    <2>1. ASSUME NEW r \in BlockRequests, LookUpBlock(r) \/ AnswerBlock(r) \/ FailBlock(r)
          PROVE  NodeStages'
      <3>1. r \in Requests /\ r # "details"
        BY DEF Requests, BlockRequests
      <3> QED
        BY <1>1, <2>1, <3>1, LookUpStages, AnswerStages, FailStages DEF AnswerBlock
    <2>2. CASE AnswerSimulation \/ AnswerCount \/ AnswerDetails
      <3>1. PICK r \in Requests :
               Answers(r) /\ (r = "details" => HasDetails(At(Chosen, form[Chosen])))
        BY <2>2 DEF AnswerSimulation, AnswerCount, AnswerDetails, Requests
      <3> QED
        BY <1>1, <3>1, AnswerStages
    <2>3. ASSUME NEW r \in Requests \ BlockRequests, FailOther(r) PROVE NodeStages'
      BY <1>1, <2>3, FailStages
    <2>4. CASE ValidateChosenBlock
      BY <1>1, <2>4, ValidateStages
    <2>5. CASE EndPost \/ EndPointing
      BY <1>1, <2>5, EndStages
    <2> QED
      BY <1>3, <1>6, <2>1, <2>2, <2>3, <2>4, <2>5 DEF CheckStep
  <1> QED
    BY <1>2, <1>3, <1>4, <1>5, <1>6 DEF Next, vars, NodeStep, ClientStep, RustProgramStep

\* The stages of the verifier in Rust.
LEMMA RustStagesKept ==
    ASSUME scenario' = scenario, seen \subseteq seen', RustStages,
           \/ rustAt' = rustAt \/ rustAt' = "done"
           \/ /\ rustAt' \in BlockRequests \cup {"validate"} /\ program = "rust" /\ RustStarted
           \/ /\ rustAt' \in {"simulation", "details"} /\ program = "rust" /\ RustStarted
              /\ RustValidated,
           rustResult' = rustResult \/ rustResult' # "accepted" \/ Permitted,
           rustAt' \in {"count", "hash"} =>
               rustAnswer'["simulation"] = rustAnswer["simulation"]
    PROVE  RustStages'
  <1>1. /\ program' = program /\ (RustStarted => RustStarted') /\ (RustValidated => RustValidated')
        /\ (Permitted => Permitted') /\ \A f : Permits(At(Chosen, f)) => Permits(At(Chosen, f))'
    BY EstablishedStays, SameData
  <1>2. rustAt' \notin {"start", "done"} => program' = "rust" /\ RustStarted'
    BY <1>1 DEF RustStages
  <1>3. rustAt' \in {"simulation", "count", "hash", "details"} => RustValidated'
    BY <1>1 DEF RustStages, BlockRequests
  <1>4. rustAt' \in {"count", "hash"} =>
            /\ <<Chosen, rustAnswer'["simulation"]>> \in seen'
            /\ Permits(At(Chosen, rustAnswer["simulation"]))'
    <2>1. SUFFICES ASSUME rustAt' \in {"count", "hash"}
                   PROVE  /\ <<Chosen, rustAnswer'["simulation"]>> \in seen'
                          /\ Permits(At(Chosen, rustAnswer["simulation"]))'
      OBVIOUS
    <2>2. rustAt' = rustAt /\ rustAnswer'["simulation"] = rustAnswer["simulation"]
      BY <2>1 DEF BlockRequests
    <2>3. /\ <<Chosen, rustAnswer["simulation"]>> \in seen
          /\ Permits(At(Chosen, rustAnswer["simulation"]))
      BY <2>1, <2>2 DEF RustStages
    <2> QED
      BY <2>2, <2>3 DEF Permits, At, p, upload
  <1>5. rustResult' = "accepted" => Permitted'
    BY <1>1 DEF RustStages
  <1> QED
    BY <1>2, <1>3, <1>4, <1>5 DEF RustStages

LEMMA RustStartStages ==
    ASSUME RustStages, program = "rust", RustStart
    PROVE  RustStages'
  <1>1. PICK error : error = IF FromJson(p) THEN FirstError(ProofTests(p, upload, setting))
                             ELSE "InvalidTransactionFormat"
    OBVIOUS
  <1>2. error = "none" => RustStarted
    BY <1>1, ProofTestsFind DEF RustStarted
  <1>3. error # "accepted"
    <2>1. error \in RustTestErrors \cup {"InvalidTransactionFormat", "none"}
      BY <1>1, ProofTestsFind
    <2> QED
      BY <2>1 DEF RustTestErrors
  <1>4. /\ scenario' = scenario /\ seen' = seen /\ rustAnswer' = rustAnswer
        /\ IF error # "none" THEN rustAt' = "done" /\ rustResult' = error
           ELSE rustAt' = "previous" /\ rustResult' = rustResult
    BY <1>1 DEF RustStart, Return, chain
  <1> QED
    BY <1>2, <1>3, <1>4, RustStagesKept DEF BlockRequests

LEMMA RustValidateStages ==
    ASSUME RustStages, RustValidate
    PROVE  RustStages'
  <1>1. PICK error : error = FirstError(ChosenBlockTests(RustBlocks, Chosen, p.timestamp)
                        \o TimestampProofsTests(p, upload) \o PointerTests(p, upload))
    OBVIOUS
  <1>2. error = "none" => RustValidated
    BY <1>1, ValidateTestsFind DEF RustValidated
  <1>3. error # "accepted"
    <2>1. error \in RustTestErrors \cup {"none"}
      BY <1>1, ValidateTestsFind
    <2> QED
      BY <2>1 DEF RustTestErrors
  <1>4. /\ scenario' = scenario /\ seen' = seen /\ rustAnswer' = rustAnswer
        /\ rustAt = "validate"
        /\ IF error # "none" THEN rustAt' = "done" /\ rustResult' = error
           ELSE rustAt' \in {"simulation", "details"} /\ rustResult' = rustResult
    BY <1>1 DEF RustValidate, Return, chain
  <1>5. program = "rust" /\ RustStarted
    BY <1>4 DEF RustStages
  <1> QED
    BY <1>2, <1>3, <1>4, <1>5, RustStagesKept

LEMMA SimulateStages ==
    ASSUME ChainTypes, ChainKnown, RustInv, RustStages, Simulate
    PROVE  RustStages'
  <1>1. /\ scenario' = scenario /\ seen' = seen /\ rustAt = "simulation" /\ rustAt' = "count"
        /\ Chosen <= height /\ rustResult' = rustResult
        /\ rustAnswer' = [rustAnswer EXCEPT !["simulation"] = form[Chosen]]
        /\ Permits(At(Chosen, form[Chosen]))
    BY DEF Simulate, Answered, BlockOf, chain
  <1>2. rustAnswer'["simulation"] = form[Chosen] /\ <<Chosen, form[Chosen]>> \in seen
    BY <1>1 DEF RustInv, RustTypes, Requests, ChainTypes, ChainKnown, Block, Chosen
  <1>3. /\ program' = program /\ (RustStarted => RustStarted') /\ (RustValidated => RustValidated')
        /\ (Permitted => Permitted')
    BY <1>1, EstablishedStays, SameData
  <1>4. Permits(At(Chosen, rustAnswer["simulation"]))'
    BY <1>1, <1>2 DEF Permits, At, p, upload
  <1> QED
    BY <1>1, <1>2, <1>3, <1>4 DEF RustStages

\* What the verifier in Rust tests in the data at its end.
LEMMA RustEndPermitted ==
    ASSUME ChainTypes, RustStages, rustAt \in {"count", "details"},
           NEW f \in Form, <<Chosen, f>> \in seen,
           LET s == At(Chosen, f) IN
           /\ s.owner # "nobody" /\ p.nonce = s.nonce /\ p.signer \in {s.owner, s.delegate}
           /\ CrossCheckEvent(p, s.pubs + 1)
    PROVE  Permitted
  <1>1. program = "rust" /\ RustStarted /\ RustValidated
    BY DEF RustStages
  <1>2. SubmissionIsRight
    BY <1>1, RustSubmissionIsRight DEF ChainTypes
  <1>3. IsPublication(p) /\ FromJson(p)
    BY <1>1, StateFacts DEF ChainTypes, RustStarted
  <1>4. /\ EventFollowsTypedData(p) /\ NoInitData(p) /\ Recognized(p.type, p.version)
        /\ p.pubId.number = At(Chosen, f).pubs + 1
    BY <1>3, RustEventFollows
  <1> QED
    BY <1>2, <1>4 DEF Permitted, MayPublish

LEMMA CountStages ==
    ASSUME ChainTypes, ChainKnown, RustInv, RustStages, CountPublications
    PROVE  RustStages'
  <1> DEFINE f == rustAnswer["simulation"]
             simulated == At(Chosen, f).pubs + 1
  <1>1. /\ scenario' = scenario /\ seen' = seen /\ rustAt = "count"
        /\ rustAnswer' = [rustAnswer EXCEPT !["count"] = form[Chosen]]
        /\ \/ rustAt' = "hash" /\ rustResult' = rustResult
           \/ rustAt' = "done" /\ rustResult' = "EventMismatch"
           \/ /\ rustAt' = "done" /\ rustResult' = "accepted" /\ CrossCheckEvent(p, simulated)
    BY DEF CountPublications, Return, chain
  <1>2. rustAnswer'["simulation"] = f
    BY <1>1 DEF RustInv, RustTypes, Requests
  <1>3. <<Chosen, f>> \in seen /\ Permits(At(Chosen, f)) /\ f \in Form
    BY <1>1 DEF RustStages, ChainTypes
  <1>4. CrossCheckEvent(p, simulated) => Permitted
    BY <1>1, <1>3, PermitsMeans, RustEndPermitted
  <1>5. CASE rustAt' = "done" /\ (rustResult' # "accepted" \/ Permitted)
    BY <1>1, <1>5, RustStagesKept
  <1>6. CASE rustAt' = "hash" /\ rustResult' = rustResult
    <2>1. /\ program' = program /\ (RustStarted => RustStarted')
          /\ (RustValidated => RustValidated') /\ (Permitted => Permitted')
      BY <1>1, EstablishedStays, SameData
    <2>2. Permits(At(Chosen, rustAnswer["simulation"]))'
      BY <1>1, <1>2, <1>3 DEF Permits, At, p, upload
    <2> QED
      BY <1>1, <1>2, <1>3, <1>6, <2>1, <2>2 DEF RustStages
  <1> QED
    BY <1>1, <1>4, <1>5, <1>6

LEMMA DetailsStages ==
    ASSUME ChainTypes, ChainKnown, RustStages, ReadDetails
    PROVE  RustStages'
  <1>1. scenario' = scenario /\ seen' = seen /\ Chosen <= height
    BY DEF ReadDetails, chain
  <1>2. /\ rustAt = "details" /\ rustAt' = "done"
        /\ rustResult' = "accepted" =>
              LET s == At(Chosen, form[Chosen]) IN
              /\ p.nonce = s.nonce /\ p.signer \in {s.owner, s.delegate}
              /\ CrossCheckEvent(p, s.pubs + 1) /\ HasDetails(s)
    BY DetailsReturn
  <1>3. form[Chosen] \in Form /\ <<Chosen, form[Chosen]>> \in seen
    BY <1>1 DEF ChainTypes, ChainKnown, Block, Chosen
  <1>4. HasDetails(At(Chosen, form[Chosen])) => At(Chosen, form[Chosen]).owner # "nobody"
    BY DEF HasDetails, OwnerOf
  <1>5. rustResult' = "accepted" => Permitted
    BY <1>2, <1>3, <1>4, RustEndPermitted
  <1> QED
    BY <1>1, <1>2, <1>5, RustStagesKept

LEMMA RustStagesStep ==
    ASSUME KnownInv, RustStages, [Next]_vars
    PROVE  RustStages'
  <1>1. /\ scenario' = scenario /\ seen \subseteq seen'
        /\ ChainTypes /\ ChainKnown /\ RustInv
    BY SameScenario, ChainStep DEF KnownInv
  <1>2. CASE UNCHANGED rustVars
    BY <1>1, <1>2, RustStagesKept DEF rustVars
  <1>3. CASE program = "rust" /\ RustStep
    <2>1. CASE RustStart
      BY <1>3, <2>1, RustStartStages
    <2>2. CASE ReadPrevious \/ ReadChosen \/ ReadNext
      <3>1. /\ rustAt \in BlockRequests /\ rustAt' \in {"chosen", "next", "validate"}
            /\ rustResult' = rustResult
        BY <2>2 DEF ReadPrevious, ReadChosen, ReadNext, Answered, BlockRequests
      <3>2. program = "rust" /\ RustStarted
        BY <3>1 DEF RustStages, BlockRequests
      <3> QED
        BY <1>1, <3>1, <3>2, RustStagesKept DEF BlockRequests
    <2>3. CASE RustValidate
      BY <2>3, RustValidateStages
    <2>4. CASE Simulate
      BY <1>1, <2>4, SimulateStages
    <2>5. CASE CountPublications
      BY <1>1, <2>5, CountStages
    <2>6. CASE BlockByHash
      BY <1>1, <2>6, RustStagesKept DEF BlockByHash, Return
    <2>7. CASE ReadDetails
      BY <1>1, <2>7, DetailsStages
    <2>8. CASE RequestFails
      <3>1. rustAt' = "done" /\ rustResult' = ErrorOf(rustAt) /\ ErrorOf(rustAt) # "accepted"
        BY <2>8 DEF RequestFails, Return, ErrorOf
      <3> QED
        BY <1>1, <3>1, RustStagesKept
    <2> QED
      BY <1>3, <2>1, <2>2, <2>3, <2>4, <2>5, <2>6, <2>7, <2>8 DEF RustStep
  <1> QED
    BY <1>2, <1>3 DEF Next, vars, NodeStep, ClientStep, RustProgramStep

\* Whatever is accepted, by whichever program, was submitted by the submitter of the
\* setting, says what its author signed, and the chain let its author publish it at a
\* form of the chosen block: for any scenarios and any interleaving of the requests with
\* reorgs, saves and failures (post/da-post-verifier-v1.ts:73,
\* da-publication-verifier-v1.ts:71, client-da-proof-verifier.ts:44,
\* momoka-rs/src/verifier/transactions/mirror.rs:51).
THEOREM OnlyPermittedAccepted == Spec => []AcceptedWasPermitted
  <1>1. Init => NodeStages /\ RustStages
    <2> SUFFICES ASSUME Init PROVE NodeStages /\ RustStages
      OBVIOUS
    <2>1. pc \in {"start", "publication"} /\ request["details"] = "none" /\ result = "none"
      BY DEF Init, NodeInit, Requests
    <2>2. rustAt = "start" /\ rustResult = "none"
      BY DEF Init, RustInit
    <2> QED
      BY <2>1, <2>2 DEF NodeStages, RustStages
  <1>2. NodeStages /\ RustStages => AcceptedWasPermitted
    BY DEF NodeStages, RustStages, Permitted, Accepted, AcceptedWasPermitted
  <1> QED
    BY <1>1, <1>2, NodeStagesStep, RustStagesStep, KnownAlways, PTL DEF Spec

-------------------------------------------------------------------------------
(* What is right is not blamed: the data *)

LEMMA AllHold ==
    ASSUME NEW tests, \A i \in DOMAIN tests : tests[i].holds
    PROVE  FirstError(tests) = "none"
  BY DEF FirstError

\* An event that follows the typed data is what a verifier of the node compares.
LEMMA NodeFieldsFollow ==
    ASSUME NEW q, q.type \in Type, q.version \in {1, 2}, Recognized(q.type, q.version),
           EventFollowsTypedData(q), NoInitData(q)
    PROVE  FieldsMatch(q)
  <1>1. CASE q.type = "POST" /\ q.version = 1
    BY <1>1 DEF FieldsMatch, Verifier, PostVerifierV1, EventFollowsTypedData, NoInitData,
       EventFields, PostCreatedV1, SignedFields, PostData, NotCompared
  <1>2. CASE q.type = "POST" /\ q.version = 2
    BY <1>2 DEF FieldsMatch, Verifier, PostVerifierV2, EventFollowsTypedData, NoInitData,
       EventFields, PostCreatedV2, SignedFields, PostData, NotCompared
  <1>3. CASE q.type = "COMMENT" /\ q.version = 1
    BY <1>3 DEF FieldsMatch, Verifier, CommentVerifierV1, EventFollowsTypedData, NoInitData,
       EventFields, PostCreatedV1, CommentCreatedV1, SignedFields, PostData, CommentData,
       Pointed, PointedV1, NotCompared
  <1>4. CASE q.type = "COMMENT" /\ q.version = 2
    BY <1>4 DEF FieldsMatch, Verifier, CommentVerifierV2, EventFollowsTypedData, NoInitData,
       EventFields, CommentCreatedV2, SignedFields, PostData, CommentData, Pointed, PointedV2,
       NotCompared
  <1>5. CASE q.type = "MIRROR" /\ q.version = 1
    BY <1>5 DEF FieldsMatch, Verifier, MirrorVerifierV1, EventFollowsTypedData, NoInitData,
       EventFields, MirrorCreatedV1, SignedFields, MirrorData, Pointed, PointedV1, NotCompared
  <1>6. CASE q.type = "MIRROR" /\ q.version = 2
    BY <1>6 DEF FieldsMatch, Verifier, MirrorVerifierV2, EventFollowsTypedData, NoInitData,
       EventFields, MirrorCreatedV2, SignedFields, MirrorData, Pointed, PointedV2, NotCompared
  <1>7. CASE q.type = "QUOTE" /\ q.version = 2
    BY <1>7 DEF FieldsMatch, Verifier, QuoteVerifierV2, EventFollowsTypedData, NoInitData,
       EventFields, QuoteCreatedV2, SignedFields, PostData, CommentData, Pointed, PointedV2,
       NotCompared
  <1>8. ~(q.type = "QUOTE" /\ q.version = 1)
    BY DEF Recognized
  <1> QED
    BY <1>1, <1>2, <1>3, <1>4, <1>5, <1>6, <1>7, <1>8 DEF Type

\* The data of the call for a post is all that was signed.
LEMMA PostSignsTheCall ==
    ASSUME IsPublication(p), p.type = "POST"
    PROVE  LET call == PostCall(p, upload.deadline) IN
           /\ call.request.data = p.value
           /\ call.request.sig.signature = SignatureOf(p)
  <1>1. p.value \in [SignedFields("POST", p.version) -> Datum] /\ p.version \in {1, 2}
    BY DEF IsPublication
  <1>2. CASE p.version = 1
    <2>1. SignedFields("POST", 1) = PostWithSigData
      BY DEF SignedFields, PostData, PostWithSigData
    <2>2. p.value = [f \in PostWithSigData |-> p.value[f]]
      BY <1>1, <1>2, <2>1
    <2> QED
      BY <1>2, <2>2 DEF PostCall, PostRequestV1, ParseSignature
  <1>3. CASE p.version = 2
    <2>1. SignedFields("POST", 2) = PostParams
      BY DEF SignedFields, PostData, PostParams
    <2>2. p.value = [f \in PostParams |-> p.value[f]]
      BY <1>1, <1>3, <2>1
    <2> QED
      BY <1>3, <2>2 DEF PostCall, PostRequestV2
  <1> QED
    BY <1>1, <1>2, <1>3

LEMMA RightExecutes ==
    ASSUME IsPublication(p), p.type = "POST", NEW s, RightAt(s)
    PROVE  Permits(s)
  <1>1. PICK call : call = PostCall(p, upload.deadline)
    OBVIOUS
  <1>2. call.request.data = p.value /\ call.request.sig.signature = SignatureOf(p)
    BY <1>1, PostSignsTheCall
  <1>3. /\ s.owner # "nobody" /\ p.nonce = s.nonce /\ p.signer \in {s.owner, s.delegate}
        /\ p.version = 1 => p.signer = (IF p.byDelegate THEN s.delegate ELSE s.owner)
    BY DEF RightAt, MayPublish
  <1>4. SignatureOf(p).data = [value |-> call.request.data, nonce |-> s.nonce]
        /\ SignatureOf(p).by = p.signer
    BY <1>2, <1>3 DEF SignatureOf, TypedData
  <1>5. Recovered(call, s.nonce) = p.signer
    BY <1>2, <1>4 DEF Recovered
  <1>6. p.signer # "nobody" /\ p.version \in {1, 2}
    BY DEF IsPublication, Signer
  <1>7. CASE p.version = 1 /\ p.byDelegate
    <2>1. call.method = "postWithSig_Dispatcher"
      BY <1>1, <1>7 DEF PostCall, PostFunction
    <2> QED
      BY <1>1, <1>3, <1>5, <1>6, <1>7, <2>1 DEF Permits, Executes, Posters
  <1>8. CASE p.version = 1 /\ ~p.byDelegate
    <2>1. call.method = "postWithSig" /\ DOMAIN call.request.sig = {"signature", "deadline"}
      BY <1>1, <1>8 DEF PostCall, PostFunction, PostRequestV1, ParseSignature
    <2>2. Posters(call, s) = {s.owner}
      BY <2>1 DEF Posters
    <2> QED
      BY <1>1, <1>3, <1>5, <1>6, <1>8, <2>2 DEF Permits, Executes
  <1>9. CASE p.version = 2
    <2>1. call.method = "postWithSig" /\ call.request.sig.signer = p.signer
          /\ "signer" \in DOMAIN call.request.sig
      BY <1>1, <1>9 DEF PostCall, PostFunction, PostRequestV2, WhoSignedTypedData
    <2>2. Posters(call, s) = {s.owner, s.delegate} \cap {p.signer}
      BY <2>1 DEF Posters
    <2> QED
      BY <1>1, <1>3, <1>5, <1>6, <2>2 DEF Permits, Executes
  <1> QED
    BY <1>6, <1>7, <1>8, <1>9

LEMMA RightIsEncoded ==
    ASSUME IsPublication(p), WellFormed(p.value)
    PROVE  IF p.type = "POST" THEN CanBeSimulated(p) ELSE CanBeRecovered(p)
  <1>1. DOMAIN p.value = SignedFields(p.type, p.version) /\ p.version \in {1, 2}
    BY DEF IsPublication
  <1>2. CASE p.type = "POST" /\ p.version = 1
    <2>1. PostWithSigData \subseteq DOMAIN p.value
      BY <1>1, <1>2 DEF SignedFields, PostData, PostWithSigData
    <2>2. WellFormed([f \in PostWithSigData |-> p.value[f]])
      BY <2>1 DEF WellFormed
    <2> QED
      BY <1>2, <2>2 DEF CanBeSimulated
  <1>3. CASE p.type = "POST" /\ p.version = 2
    <2>1. PostParams \subseteq DOMAIN p.value
      BY <1>1, <1>3 DEF SignedFields, PostData, PostParams
    <2>2. WellFormed([f \in PostParams |-> p.value[f]])
      BY <2>1 DEF WellFormed
    <2> QED
      BY <1>3, <2>2 DEF CanBeSimulated, CanBeRecovered
  <1> QED
    BY <1>1, <1>2, <1>3 DEF CanBeRecovered

-------------------------------------------------------------------------------
(* What is right is not blamed: the node and the client library *)

LEMMA SomebodySubmits ==
    ASSUME setting \in [environment : Environment, deployment : Deployment],
           IsSupported(setting)
    PROVE  Submitters[setting.deployment][setting.environment] # "none"
  <1>1. CASE setting.deployment = "PRODUCTION"
    BY <1>1 DEF Submitters, Deployment, Environment
  <1>2. CASE setting.deployment = "STAGING"
    BY <1>2 DEF Deployment, Environment, IsSupported, Submitters
  <1>3. CASE setting.deployment = "LOCAL"
    BY <1>3 DEF Deployment, Environment, IsSupported, Submitters
  <1> QED
    BY <1>1, <1>2, <1>3 DEF Deployment

LEMMA SubmissionTestsHold ==
    ASSUME scenario \in Names, program \in {"node", "client"}, SubmissionIsRight
    PROVE  /\ FirstError(SubmitterTest(upload, setting) \o SubmissionTests(p, upload, setting))
                 = "none"
           /\ SubmitterError = "none"
  <1>1. /\ upload.signedBy = Submitters[setting.deployment][setting.environment]
        /\ upload.uploadedBy = Submitters[setting.deployment][setting.environment]
        /\ IsSupported(setting) /\ upload.event = upload.block /\ upload.deadline = upload.block
        /\ upload.proofs.type = p.type /\ upload.proofs.daId = p.daId /\ upload.proofs.signed
    BY DEF SubmissionIsRight, TheSubmitter
  <1>2. upload.signedBy # "none" /\ upload.uploadedBy # "none"
    BY <1>1, SomebodySubmits, StateFacts
  <1>3. PICK t1 : /\ t1.holds
                  /\ t1 = Test(IsValidSubmitter(setting, upload.uploadedBy),
                               "TIMESTAMP_PROOF_NOT_SUBMITTER")
    BY <1>1 DEF Test, IsValidSubmitter
  <1>4. PICK t2 : t2.holds /\ t2 = Test(upload.signedBy # "none", "NO_SIGNATURE_SUBMITTER")
    BY <1>2 DEF Test
  <1>5. PICK t3 : /\ t3.holds
                  /\ t3 = Test(IsValidSignatureSubmitter(upload, setting),
                               "INVALID_SIGNATURE_SUBMITTER")
    BY <1>1 DEF Test, IsValidSignatureSubmitter, IsValidSubmitter, ExtractAddress, VerifyMessage
  <1>6. PICK t4 : t4.holds /\ t4 = Test(VerifyReceipt(upload), "TIMESTAMP_PROOF_INVALID_SIGNATURE")
    BY <1>1 DEF Test, VerifyReceipt
  <1>7. PICK t5 : /\ t5.holds
                  /\ t5 = Test(upload.proofs.type = p.type, "TIMESTAMP_PROOF_INVALID_TYPE")
    BY <1>1 DEF Test
  <1>8. PICK t6 : /\ t6.holds
                  /\ t6 = Test(upload.proofs.daId = p.daId, "TIMESTAMP_PROOF_INVALID_DA_ID")
    BY <1>1 DEF Test
  <1>9. PICK t7 : t7.holds /\ t7 = Test(IsValidEventTimestamp(upload), "INVALID_EVENT_TIMESTAMP")
    BY <1>1 DEF Test, IsValidEventTimestamp
  <1>10. PICK t8 : /\ t8.holds
                   /\ t8 = Test(IsValidTypedDataDeadlineTimestamp(upload),
                                "INVALID_TYPED_DATA_DEADLINE_TIMESTAMP")
    BY <1>1 DEF Test, IsValidTypedDataDeadlineTimestamp
  <1>11. PICK s : s = <<t1>> \o (<<t2, t3>> \o <<t4, t5, t6>> \o <<t7, t8>>)
    OBVIOUS
  <1>12. s = SubmitterTest(upload, setting) \o SubmissionTests(p, upload, setting)
    BY <1>3, <1>4, <1>5, <1>6, <1>7, <1>8, <1>9, <1>10, <1>11
       DEF SubmitterTest, SubmissionTests, TimestampProofTests
  <1>13. /\ DOMAIN s = 1 .. 8 /\ s[1] = t1 /\ s[2] = t2 /\ s[3] = t3 /\ s[4] = t4
         /\ s[5] = t5 /\ s[6] = t6 /\ s[7] = t7 /\ s[8] = t8
    BY <1>11
  <1>14. \A i \in 1 .. 8 : i \in {1, 2, 3, 4, 5, 6, 7, 8}
    OBVIOUS
  <1>15. \A i \in DOMAIN s : s[i].holds
    BY <1>3, <1>4, <1>5, <1>6, <1>7, <1>8, <1>9, <1>10, <1>13, <1>14
  <1>16. FirstError(s) = "none"
    BY <1>15, AllHold
  <1> QED
    BY <1>1, <1>2, <1>12, <1>16 DEF SubmitterError

LEMMA RightStays ==
    ASSUME scenario' = scenario, seen \subseteq seen'
    PROVE  /\ Right' => Right
           /\ BlocksInOrder' => BlocksInOrder
           /\ RightForRust' => RightForRust
           /\ ChosenIsClosest' => ChosenIsClosest
  <1>1. Right' => Right
    BY DEF Right, SubmissionIsRight, TheSubmitter, RightAt, MayPublish, At, program, setting,
       upload, p
  <1>2. BlocksInOrder' => BlocksInOrder
    BY DEF BlocksInOrder, At, p
  <1>3. RightForRust' => RightForRust
    BY DEF RightForRust, p, upload
  <1>4. ChosenIsClosest' => ChosenIsClosest
    <2>1. p' = p /\ \A b, f : At(b, f)' = At(b, f)
      BY SameData
    <2> QED
      BY <2>1 DEF ChosenIsClosest
  <1> QED
    BY <1>1, <1>2, <1>3, <1>4

\* The chosen block is found closest when the times of the blocks are in order.
LEMMA ChosenIsValid ==
    ASSUME ChainTypes, NodeInv, BlocksInOrder, \A r \in BlockRequests : request[r] = "answered"
    PROVE  ChosenBlockIsValid
  <1>1. \A r \in BlockRequests : answer[r] \in Form
    <2>1. ASSUME NEW r \in BlockRequests PROVE answer[r] \in Form
      <3>1. <<BlockOf(r), answer[r]>> \in seen
        BY DEF NodeInv, NodeKnown, Requests
      <3> QED
        BY <3>1 DEF ChainTypes
    <2> QED
      BY <2>1
  <1>2. PICK t1, t2, t3 : /\ t1 = At(1, answer["previous"]).time
                          /\ t2 = At(2, answer["chosen"]).time
                          /\ t3 = At(3, answer["next"]).time
    OBVIOUS
  <1>3. t1 \in Nat /\ t2 \in Nat /\ t3 \in Nat /\ p.timestamp \in Nat
    BY <1>1, <1>2, StateFacts DEF ChainTypes, State, Block, BlockRequests, IsPublication
  <1>4. t1 < t2 /\ t2 <= p.timestamp
    BY <1>1, <1>2 DEF BlocksInOrder, BlockRequests, Chosen
  <1>5. PICK bs : bs = ReadBlocks
    OBVIOUS
  <1>6. /\ bs[1] = [number |-> 1, time |-> t1]
        /\ bs[2] = [number |-> 2, time |-> t2]
        /\ bs[3] = [number |-> 3, time |-> t3]
    BY <1>2, <1>5 DEF ReadBlocks, RequestFor, Block
  <1>7. Closer(bs[1], bs[2], p.timestamp) = bs[2]
    BY <1>3, <1>4, <1>6 DEF Closer, Distance, UnixTimestampToMilliseconds
  <1>8. GetClosestBlock(bs[1], bs[2], bs[3], p.timestamp) \in {bs[2], bs[3]}
    BY <1>7 DEF GetClosestBlock, Closer
  <1> QED
    BY <1>5, <1>6, <1>8 DEF ChosenBlockIsValid, Chosen

\* What the node says at a form of the chosen block of what is right.
LEMMA RightAtSeen ==
    ASSUME ChainTypes, Right, NEW f, <<Chosen, f>> \in seen
    PROVE  /\ RightAt(At(Chosen, f)) /\ At(Chosen, f) \in State
           /\ VerifyEventWithTypedData(p, At(Chosen, f).pubs + 1)
  <1>1. f \in Form /\ RightAt(At(Chosen, f))
    BY DEF Right, ChainTypes
  <1>2. At(Chosen, f) \in State /\ IsPublication(p)
    BY <1>1, StateFacts DEF ChainTypes, Block, Chosen
  <1>3. p.pubId.number = At(Chosen, f).pubs + 1 /\ p.pubId.form = "even"
    BY <1>1 DEF RightAt, MayPublish, Right
  <1>4. FieldsMatch(p)
    BY <1>2, NodeFieldsFollow DEF Right, IsPublication
  <1> QED
    BY <1>1, <1>2, <1>3, <1>4 DEF VerifyEventWithTypedData, PubIdMatches

LEMMA RightPostIsNotBlamed ==
    ASSUME ChainTypes, NodeInv, Right, EndPost
    PROVE  PostResult \notin Blame
  <1>1. /\ request["simulation"] \in {"answered", "failed"} /\ p.type = "POST"
        /\ request["count"] \in {"answered", "failed"}
    BY DEF EndPost, Settled
  <1>2. CASE request["simulation"] = "failed" \/ request["count"] = "failed"
    BY <1>2 DEF PostResult, Blame
  <1>3. CASE request["simulation"] = "answered" /\ request["count"] = "answered"
    <2>1. PICK s : s = At(Chosen, answer["simulation"])
      OBVIOUS
    <2>2. PICK c : c = At(Chosen, answer["count"])
      OBVIOUS
    <2>3. /\ <<Chosen, answer["simulation"]>> \in seen
          /\ <<Chosen, answer["count"]>> \in seen
      BY <1>3, AnsweredForm DEF Requests, BlockRequests
    <2>4. /\ RightAt(s) /\ RightAt(c) /\ s \in State /\ c \in State
          /\ VerifyEventWithTypedData(p, s.pubs + 1)
      BY <2>1, <2>2, <2>3, RightAtSeen
    <2>5. s.pubs = c.pubs
      BY <2>4 DEF RightAt, MayPublish, State
    <2>6. Permits(s)
      BY <1>1, <2>4, StateFacts, RightExecutes DEF ChainTypes
    <2>7. Simulated(s) = s.pubs + 1 /\ Expected(c) = c.pubs + 1
      BY <2>6, PubCount DEF Simulated, Expected
    <2>8. PostResult = "accepted"
      BY <1>3, <2>1, <2>2, <2>4, <2>5, <2>7 DEF PostResult
    <2> QED
      BY <2>8 DEF Blame
  <1> QED
    BY <1>1, <1>2, <1>3

LEMMA RightPointingIsNotBlamed ==
    ASSUME ChainTypes, NodeInv, Right, EndPointing
    PROVE  DetailsResult \notin Blame
  <1>1. request["details"] \in {"answered", "failed"}
    BY DEF EndPointing, Settled
  <1>2. CASE request["details"] = "failed"
    BY <1>2 DEF DetailsResult, Blame
  <1>3. CASE request["details"] = "answered"
    <2>1. PICK s : s = At(Chosen, answer["details"])
      OBVIOUS
    <2>2. PICK d : d = IF p.version = 1 THEN DetailsV1(CallsV1(s))
                       ELSE DetailsV2(CallsV2(s, WhoSignedTypedData(p)))
      OBVIOUS
    <2>3. PICK error : error = IF p.version = 1 THEN SignerErrorV1(d) ELSE SignerErrorV2(d)
      OBVIOUS
    <2>4. <<Chosen, answer["details"]>> \in seen
      BY <1>3, AnsweredForm DEF Requests, BlockRequests
    <2>5. RightAt(s) /\ VerifyEventWithTypedData(p, s.pubs + 1)
      BY <2>1, <2>4, RightAtSeen
    <2>6. s.owner # "nobody" /\ p.nonce = s.nonce /\ p.signer \in {s.owner, s.delegate}
      BY <2>5 DEF RightAt, MayPublish
    <2>7. OwnerOf(s) = s.owner
      BY <2>6 DEF OwnerOf
    <2>8. error = "none" /\ d.currentPublicationId = s.pubs
      <3>1. CASE p.version = 1
        <4>1. d = [sigNonce |-> s.nonce, currentPublicationId |-> s.pubs,
                   dispatcherAddress |-> s.delegate, ownerOfAddress |-> s.owner]
          BY <2>2, <2>7, <3>1 DEF DetailsV1, CallsV1, SigNonces, GetPubCount, GetDispatcher
        <4> QED
          BY <2>3, <2>6, <3>1, <4>1 DEF SignerErrorV1, WhoSignedTypedData
      <3>2. CASE p.version # 1
        <4>1. /\ d.nonces = s.nonce /\ d.currentPublicationId = s.pubs
              /\ d.ownerOfAddress = s.owner /\ d.isSignerApprovedExecutor = (p.signer = s.delegate)
          BY <2>2, <2>7, <3>2 DEF DetailsV2, CallsV2, Nonces, GetProfile,
             IsDelegatedExecutorApproved, WhoSignedTypedData
        <4> QED
          BY <2>3, <2>6, <3>2, <4>1 DEF SignerErrorV2, WhoSignedTypedData
      <3> QED
        BY <3>1, <3>2
    <2>9. DetailsResult = "accepted"
      BY <1>3, <2>1, <2>2, <2>3, <2>5, <2>8 DEF DetailsResult
    <2> QED
      BY <2>9 DEF Blame
  <1> QED
    BY <1>1, <1>2, <1>3

NodeBlame == result \in Blame => ~(Right /\ BlocksInOrder)

\* A step that blames a publication that is right is no step.
LEMMA BlamingStep ==
    ASSUME KnownInv, [Next]_vars, Right, BlocksInOrder, result' # result
    PROVE  result' \notin Blame
  <1>1. ChainTypes /\ NodeInv /\ scenario \in Names /\ SubmissionIsRight
    BY DEF KnownInv, ChainTypes, Right
  <1>2. CASE program = "node" /\ StartCheck
    BY <1>1, <1>2, SubmissionTestsHold DEF StartCheck, ReadBlocksUnless
  <1>3. CASE program = "client" /\ ReadOwner
    BY <1>1, <1>3, SubmissionTestsHold DEF ReadOwner, ReadBlocksUnless
  <1>4. CASE ReadPublication \/ ReadTimestampProofs
    <2>1. upload.found /\ upload.proofs.given
      BY <1>1 DEF SubmissionIsRight
    <2> QED
      BY <1>4, <2>1 DEF ReadPublication, ReadTimestampProofs
  <1>5. CASE ReadFails \/ OwnerFails
    BY <1>5 DEF ReadFails, OwnerFails, End, Blame
  <1>6. CASE \E r \in BlockRequests : FailBlock(r)
    BY <1>6 DEF FailBlock, End, Blame
  <1>7. CASE ValidateChosenBlock
    <2>1. ChosenBlockIsValid
      BY <1>1, <1>7, ChosenIsValid DEF ValidateChosenBlock
    <2>2. Recognized(p.type, p.version) /\ VerifyPublicationIdMatches(p)
      BY DEF Right
    <2>3. IF p.type = "POST" THEN CanBeSimulated(p) ELSE CanBeRecovered(p)
      BY <1>1, StateFacts, RightIsEncoded DEF Right
    <2> QED
      BY <1>7, <2>1, <2>2, <2>3 DEF ValidateChosenBlock
  <1>8. CASE EndPost
    BY <1>1, <1>8, RightPostIsNotBlamed DEF EndPost, End
  <1>9. CASE EndPointing
    BY <1>1, <1>9, RightPointingIsNotBlamed DEF EndPointing, End
  <1>10. \/ (program = "node" /\ StartCheck) \/ (program = "client" /\ ReadOwner)
         \/ (\E r \in BlockRequests : FailBlock(r))
         \/ ValidateChosenBlock \/ EndPost \/ EndPointing
         \/ ReadPublication \/ ReadTimestampProofs \/ ReadFails \/ OwnerFails
    BY DEF Next, vars, nodeVars, NodeStep, ClientStep, RustProgramStep, CheckStep,
       LookUpBlock, AnswerBlock, Answers, FailOther, AnswerSimulation,
       AnswerCount, AnswerDetails, SimulateAfterCount, ClientStart,
       BlockSaves, SaveBlock, SaveByAnother
  <1> QED
    BY <1>2, <1>3, <1>4, <1>5, <1>6, <1>7, <1>8, <1>9, <1>10

LEMMA NodeBlameStep ==
    ASSUME KnownInv, NodeBlame, [Next]_vars
    PROVE  NodeBlame'
  <1>1. (Right /\ BlocksInOrder)' => Right /\ BlocksInOrder
    BY SameScenario, ChainStep, RightStays DEF KnownInv
  <1>2. CASE result' = result
    BY <1>1, <1>2 DEF NodeBlame
  <1>3. CASE result' # result
    BY <1>1, <1>3, BlamingStep DEF NodeBlame
  <1> QED
    BY <1>2, <1>3

-------------------------------------------------------------------------------
(* What is right is not blamed: the verifier in Rust *)

\* Such a publication is read, and its signature is that of the submitter.
LEMMA RightIsRead ==
    ASSUME IsPublication(p), SubmissionIsRight, Recognized(p.type, p.version),
           EventFollowsTypedData(p), p.pubId.form = "even", p.version = 1,
           SameInLowerCase(p.value["referenceModule"])
    PROVE  FromJson(p) /\ extract_address(p, upload) = upload.signedBy
  <1>1. /\ DOMAIN p.value = SignedFields(p.type, 1) /\ DOMAIN p.event = EventFields(p.type, 1)
        /\ p.type \in {"POST", "COMMENT", "MIRROR"}
        /\ p.pubId \in [number : Nat, form : {"even", "odd"}]
    BY DEF IsPublication, Recognized, Type
  <1>2. FromJson(p)
    <2>1. CASE p.type = "POST"
      BY <1>1, <2>1 DEF FromJson, Declares, PostValue, PostCreated, SignedFields, PostData,
         EventFields, PostCreatedV1
    <2>2. CASE p.type = "COMMENT"
      BY <1>1, <2>2 DEF FromJson, Declares, CommentValue, CommentCreated, SignedFields,
         PostData, CommentData, Pointed, PointedV1, EventFields, PostCreatedV1, CommentCreatedV1
    <2>3. CASE p.type = "MIRROR"
      BY <1>1, <2>3 DEF FromJson, Declares, MirrorValue, MirrorCreated, SignedFields,
         MirrorData, Pointed, PointedV1, EventFields, MirrorCreatedV1
    <2> QED
      BY <1>1, <2>1, <2>2, <2>3
  <1>3. p.pubId = AsStr(p.pubId)
    BY <1>1 DEF AsStr
  <1>4. p.type # "MIRROR" => p.event["collectModule"] = p.value["collectModule"]
    BY <1>1 DEF EventFollowsTypedData, EventFields, PostCreatedV1, CommentCreatedV1,
       SignedFields, PostData, CommentData, NotCompared
  <1>5. p.event["referenceModule"] = p.value["referenceModule"]
    <2>1. "referenceModule" \in EventFields(p.type, 1) \ NotCompared
      BY <1>1 DEF EventFields, PostCreatedV1, CommentCreatedV1, MirrorCreatedV1, NotCompared
    <2>2. "referenceModule" \in SignedFields(p.type, 1)
      BY <1>1 DEF SignedFields, PostData, CommentData, MirrorData, Pointed, PointedV1
    <2> QED
      BY <2>1, <2>2 DEF EventFollowsTypedData
  <1> QED
    BY <1>2, <1>3, <1>4, <1>5 DEF extract_address, SameWhenRewritten

LEMMA ProofTestsHold ==
    ASSUME scenario \in Names, program = "rust", Right, RightForRust
    PROVE  FromJson(p) /\ FirstError(ProofTests(p, upload, setting)) = "none"
  <1>1. IsPublication(p)
    BY StateFacts
  <1>2. FromJson(p) /\ extract_address(p, upload) = upload.signedBy
    BY <1>1, RightIsRead DEF Right, RightForRust
  <1>3. /\ upload.signedBy = get_submitters[setting.deployment][setting.environment]
        /\ upload.uploadedBy = get_submitters[setting.deployment][setting.environment]
        /\ upload.event = upload.block /\ upload.deadline = upload.block
    BY DEF Right, SubmissionIsRight, TheSubmitter
  <1>4. p.pubId = AsStr(p.pubId)
    BY <1>1 DEF Right, AsStr, IsPublication
  <1>5. ValidPublicationId(p)
    BY <1>4 DEF Right, VerifyPublicationIdMatches, ValidPublicationId, GeneratePublicationId,
       FormatPublicationId
  <1>6. PICK t1 : t1.holds /\ t1 = Test(is_valid_submitter(setting, extract_address(p, upload)),
                                        "InvalidSignatureSubmitter")
    <2>1. is_valid_submitter(setting, extract_address(p, upload))
      BY <1>2, <1>3 DEF is_valid_submitter
    <2> QED
      BY <2>1 DEF Test
  <1>7. PICK t2 : t2.holds /\ t2 = Test(ValidPublicationId(p), "GeneratedPublicationIdMismatch")
    BY <1>5 DEF Test
  <1>8. PICK t3 : t3.holds /\ t3 = Test(is_valid_submitter(setting, upload.uploadedBy),
                                        "TimestampProofNotSubmitter")
    BY <1>3 DEF Test, is_valid_submitter
  <1>9. PICK t4 : t4.holds /\ t4 = Test(is_valid_event_timestamp(upload), "InvalidEventTimestamp")
    BY <1>3 DEF Test, is_valid_event_timestamp
  <1>10. PICK t5 : t5.holds /\ t5 = Test(is_valid_typed_data_deadline_timestamp(upload),
                                         "InvalidTypedDataDeadlineTimestamp")
    BY <1>3 DEF Test, is_valid_typed_data_deadline_timestamp
  <1>11. PICK s : s = <<t1, t2, t3, t4, t5>>
    OBVIOUS
  <1>12. s = ProofTests(p, upload, setting)
    BY <1>6, <1>7, <1>8, <1>9, <1>10, <1>11 DEF ProofTests
  <1>13. /\ DOMAIN s = 1 .. 5 /\ s[1] = t1 /\ s[2] = t2 /\ s[3] = t3 /\ s[4] = t4 /\ s[5] = t5
    BY <1>11
  <1>14. \A i \in 1 .. 5 : i \in {1, 2, 3, 4, 5}
    OBVIOUS
  <1>15. \A i \in DOMAIN s : s[i].holds
    BY <1>6, <1>7, <1>8, <1>9, <1>10, <1>13, <1>14
  <1> QED
    BY <1>2, <1>12, <1>15, AllHold

LEMMA ChosenTestHolds ==
    ASSUME ChainTypes, ChosenIsClosest,
           \A r \in BlockRequests : rustAnswer[r] \in Form
    PROVE  \A b \in ClosestBlocks(RustBlocks, p.timestamp) : b.number \in {Chosen, Chosen + 1}
  <1> SUFFICES ASSUME NEW b \in ClosestBlocks(RustBlocks, p.timestamp),
                      b.number \notin {Chosen, Chosen + 1}
               PROVE  FALSE
    OBVIOUS
  <1>1. PICK f, g, h : /\ f = rustAnswer["previous"] /\ g = rustAnswer["chosen"]
                       /\ h = rustAnswer["next"]
    OBVIOUS
  <1>2. f \in Form /\ g \in Form /\ h \in Form
    BY <1>1 DEF BlockRequests
  <1>3. PICK b1, b2, b3 : /\ b1 = [number |-> 1, time |-> At(1, f).time]
                          /\ b2 = [number |-> 2, time |-> At(2, g).time]
                          /\ b3 = [number |-> 3, time |-> At(3, h).time]
    OBVIOUS
  <1>4. RustBlocks = {b1, b2, b3}
    BY <1>1, <1>3 DEF RustBlocks, Block, RequestFor
  <1>5. b \in {b1, b2, b3} /\ \A c \in {b1, b2, b3} : c.number <= p.timestamp =>
            Apart(1000 * b.time, p.timestamp) <= Apart(1000 * c.time, p.timestamp)
    BY <1>4 DEF ClosestBlocks
  <1>6. b = b1
    BY <1>3, <1>5 DEF Chosen
  <1>7. /\ p.timestamp \in Nat
        /\ At(1, f).time \in Nat /\ At(2, g).time \in Nat /\ At(3, h).time \in Nat
    BY <1>2, StateFacts DEF ChainTypes, IsPublication, State, Block
  <1>8. PICK c \in {b2, b3} :
            Distance(1000 * c.time, p.timestamp) < Distance(1000 * b1.time, p.timestamp)
    <2>1. PICK t \in {At(2, g).time, At(3, h).time} :
              Distance(1000 * t, p.timestamp) < Distance(1000 * At(1, f).time, p.timestamp)
      BY <1>2 DEF ChosenIsClosest, Chosen
    <2>2. CASE t = At(2, g).time
      BY <1>3, <2>1, <2>2
    <2>3. CASE t = At(3, h).time
      BY <1>3, <2>1, <2>3
    <2> QED
      BY <2>1, <2>2, <2>3
  <1>9. c.number <= p.timestamp
    BY <1>3, <1>8 DEF ChosenIsClosest, Block
  <1>10. Apart(1000 * b1.time, p.timestamp) <= Apart(1000 * c.time, p.timestamp)
    BY <1>5, <1>6, <1>9
  <1>11. b1.time \in Nat /\ c.time \in Nat
    BY <1>3, <1>7
  <1> QED
    BY <1>7, <1>8, <1>10, <1>11 DEF Apart, Distance

LEMMA ValidateTestsHold ==
    ASSUME ChainTypes, program = "rust", Right, RightForRust, ChosenIsClosest,
           \A r \in BlockRequests : rustAnswer[r] \in Form
    PROVE  FirstError(ChosenBlockTests(RustBlocks, Chosen, p.timestamp)
                        \o TimestampProofsTests(p, upload) \o PointerTests(p, upload))
               \in {"none", "BlockCantBeReadFromNode"}
  <1>1. PICK t1, t2 : /\ ChosenBlockTests(RustBlocks, Chosen, p.timestamp) = <<t1, t2>>
                      /\ t1.error = "BlockCantBeReadFromNode" /\ t2.holds
    <2>1. PICK t1 : t1 = Test(ClosestBlocks(RustBlocks, p.timestamp) # {},
                              "BlockCantBeReadFromNode")
      OBVIOUS
    <2>2. PICK t2 : t2 = Test(\A b \in ClosestBlocks(RustBlocks, p.timestamp) :
                                  b.number \in {Chosen, Chosen + 1}, "NotClosestBlock")
      OBVIOUS
    <2>3. ChosenBlockTests(RustBlocks, Chosen, p.timestamp) = <<t1, t2>>
      BY <2>1, <2>2 DEF ChosenBlockTests
    <2>4. t1.error = "BlockCantBeReadFromNode"
      BY <2>1 DEF Test
    <2>5. t2.holds
      BY <2>2, ChosenTestHolds DEF Test
    <2> QED
      BY <2>3, <2>4, <2>5
  <1>2. /\ upload.proofs.given /\ upload.proofs.type = p.type
        /\ upload.proofs.daId = p.daId /\ upload.proofs.signed
    BY DEF Right, SubmissionIsRight
  <1>3. PICK t3 : t3.holds /\ t3 = Test(upload.proofs.given /\ upload.proofs.type = p.type,
                                        "TimestampProofInvalidType")
    <2>1. PICK t3 : t3 = Test(upload.proofs.given /\ upload.proofs.type = p.type,
                              "TimestampProofInvalidType")
      OBVIOUS
    <2>2. t3.holds
      BY <1>2, <2>1 DEF Test
    <2> QED
      BY <2>1, <2>2
  <1>4. PICK t4 : t4.holds /\ t4 = Test(upload.proofs.daId = p.daId, "TimestampProofInvalidDAID")
    BY <1>2 DEF Test
  <1>5. PICK t5 : t5.holds /\ t5 = Test(VerifyTimestampProofs(upload),
                                        "TimestampProofInvalidSignature")
    <2>1. VerifyTimestampProofs(upload) = TRUE
      BY DEF VerifyTimestampProofs, Right, SubmissionIsRight
    <2> QED
      BY <2>1 DEF Test
  <1>6. TimestampProofsTests(p, upload) = <<t3, t4, t5>>
    BY <1>3, <1>4, <1>5 DEF TimestampProofsTests
  <1>7. PICK t6, t7 : /\ PointerTests(p, upload) \in {<<t6>>, <<t6, t7>>}
                      /\ t6.holds /\ t7.holds
    <2>1. PICK t6 : t6 = Test(upload.pointer = "none", "InvalidPointerSetNotNeeded")
      OBVIOUS
    <2>2. PICK t7 : t7 = Test(upload.pointer # "none", "PublicationNoPointer")
      OBVIOUS
    <2>3. PICK t8 : t8 = Test(upload.pointer = "onDa", "PublicationNoneDA")
      OBVIOUS
    <2>4. CASE p.type = "POST"
      <3>1. upload.pointer = "none"
        BY <2>4 DEF RightForRust
      <3>2. PointerTests(p, upload) = <<t6>> /\ t6.holds
        BY <2>1, <2>4, <3>1 DEF PointerTests, Test
      <3> QED
        BY <3>2
    <2>5. CASE p.type # "POST"
      <3>1. upload.pointer = "onDa"
        BY <2>5 DEF RightForRust
      <3>2. PointerTests(p, upload) = <<t7, t8>> /\ t7.holds /\ t8.holds
        BY <2>2, <2>3, <2>5, <3>1 DEF PointerTests, Test
      <3> QED
        BY <3>2
    <2> QED
      BY <2>4, <2>5
  <1>8. PICK all : all = ChosenBlockTests(RustBlocks, Chosen, p.timestamp)
                           \o TimestampProofsTests(p, upload) \o PointerTests(p, upload)
    OBVIOUS
  <1>9. \/ all = <<t1, t2>> \o <<t3, t4, t5>> \o <<t6>>
        \/ all = <<t1, t2>> \o <<t3, t4, t5>> \o <<t6, t7>>
    BY <1>1, <1>6, <1>7, <1>8
  <1>10. CASE all = <<t1, t2>> \o <<t3, t4, t5>> \o <<t6>>
    <2>1. /\ DOMAIN all = 1 .. 6 /\ all[1] = t1 /\ all[2] = t2 /\ all[3] = t3 /\ all[4] = t4
          /\ all[5] = t5 /\ all[6] = t6
      BY <1>10
    <2>2. \A i \in 1 .. 6 : i \in {1, 2, 3, 4, 5, 6}
      OBVIOUS
    <2>3. \A i \in 1 .. 6 : all[i].holds \/ all[i].error = "BlockCantBeReadFromNode"
      BY <1>1, <1>3, <1>4, <1>5, <1>7, <2>1, <2>2
    <2>4. \/ FirstError(all) = "none"
          \/ \E i \in 1 .. 6 : ~all[i].holds /\ FirstError(all) = all[i].error
      BY <2>1, FirstErrorOf
    <2> QED
      BY <1>8, <2>3, <2>4
  <1>11. CASE all = <<t1, t2>> \o <<t3, t4, t5>> \o <<t6, t7>>
    <2>1. /\ DOMAIN all = 1 .. 7 /\ all[1] = t1 /\ all[2] = t2 /\ all[3] = t3 /\ all[4] = t4
          /\ all[5] = t5 /\ all[6] = t6 /\ all[7] = t7
      BY <1>11
    <2>2. \A i \in 1 .. 7 : i \in {1, 2, 3, 4, 5, 6, 7}
      OBVIOUS
    <2>3. \A i \in 1 .. 7 : all[i].holds \/ all[i].error = "BlockCantBeReadFromNode"
      BY <1>1, <1>3, <1>4, <1>5, <1>7, <2>1, <2>2
    <2>4. \/ FirstError(all) = "none"
          \/ \E i \in 1 .. 7 : ~all[i].holds /\ FirstError(all) = all[i].error
      BY <2>1, FirstErrorOf
    <2> QED
      BY <1>8, <2>3, <2>4
  <1> QED
    BY <1>9, <1>10, <1>11

\* The event of such a publication passes.
LEMMA RightCrossChecks ==
    ASSUME IsPublication(p), Right, RightForRust, NEW n, p.pubId.number = n
    PROVE  CrossCheckEvent(p, n)
  <1>1. /\ p.version = 1 /\ p.type \in {"POST", "COMMENT", "MIRROR"}
        /\ "referenceModuleData" \in SignedFields(p.type, 1)
              => p.value["referenceModuleData"] = Empty
        /\ EventFollowsTypedData(p) /\ NoInitData(p)
    BY DEF Right, RightForRust, Recognized, IsPublication, Type
  <1>2. CASE p.type = "POST"
    BY <1>1, <1>2 DEF CrossCheckEvent, CrossCheckPost, Same, IsEmpty, Empty,
       EventFollowsTypedData, NoInitData, EventFields, PostCreatedV1, SignedFields, PostData,
       NotCompared
  <1>3. CASE p.type = "COMMENT"
    BY <1>1, <1>3 DEF CrossCheckEvent, CrossCheckComment, Same, IsEmpty, Empty,
       EventFollowsTypedData, NoInitData, EventFields, PostCreatedV1, CommentCreatedV1,
       SignedFields, PostData, CommentData, Pointed, PointedV1, NotCompared
  <1>4. CASE p.type = "MIRROR"
    BY <1>1, <1>4 DEF CrossCheckEvent, CrossCheckMirror, Same, IsEmpty, Empty,
       EventFollowsTypedData, NoInitData, EventFields, MirrorCreatedV1, SignedFields,
       MirrorData, Pointed, PointedV1, NotCompared
  <1> QED
    BY <1>1, <1>2, <1>3, <1>4

LEMMA DetailsTestsHold ==
    ASSUME NEW q, NEW details, NEW matches, matches,
           q.nonce = details.nonce, q.signer \in {details.delegate, details.owner}
    PROVE  FirstError(SignerTests(q, details) \o <<Test(matches, "EventMismatch")>>) = "none"
  <1> DEFINE allowed == q.signer \in {details.delegate, details.owner}
  <1>1. PICK t3 : t3 = Test(matches, "EventMismatch")
    OBVIOUS
  <1>2. t3.holds
    BY <1>1 DEF Test
  <1>3. CASE q.type = "COMMENT"
    <2>1. PICK t1 : t1 = Test(q.nonce = details.nonce /\ allowed, "PublicationNonceInvalid")
      OBVIOUS
    <2>2. SignerTests(q, details) = <<t1>>
      BY <1>3, <2>1 DEF SignerTests, recovery_signed_typed_data
    <2>3. PICK s : s = <<t1>> \o <<t3>>
      OBVIOUS
    <2>4. DOMAIN s = {1, 2} /\ s[1] = t1 /\ s[2] = t3
      BY <2>3
    <2>5. t1.holds
      BY <2>1 DEF Test
    <2>6. FirstError(s) = "none"
      BY <1>2, <2>4, <2>5, AllHold
    <2> QED
      BY <1>1, <2>2, <2>3, <2>6
  <1>4. CASE q.type # "COMMENT"
    <2>1. PICK t1 : t1 = Test(q.nonce = details.nonce, "PublicationNonceInvalid")
      OBVIOUS
    <2>2. PICK t2 : t2 = Test(allowed, "PublicationSignerNotAllowed")
      OBVIOUS
    <2>3. SignerTests(q, details) = <<t1, t2>>
      BY <1>4, <2>1, <2>2 DEF SignerTests, recovery_signed_typed_data
    <2>4. PICK s : s = <<t1, t2>> \o <<t3>>
      OBVIOUS
    <2>5. DOMAIN s = {1, 2, 3} /\ s[1] = t1 /\ s[2] = t2 /\ s[3] = t3
      BY <2>4
    <2>6. t1.holds /\ t2.holds
      BY <2>1, <2>2 DEF Test
    <2>7. FirstError(s) = "none"
      BY <1>2, <2>5, <2>6, AllHold
    <2> QED
      BY <1>1, <2>3, <2>4, <2>7
  <1> QED
    BY <1>3, <1>4

\* The forms the verifier goes by at each stage; it asks for a hash only after a reorg.
RustRead ==
    /\ rustAt \in {"chosen", "next", "validate"} => rustAnswer["previous"] \in Form
    /\ rustAt \in {"next", "validate"} => rustAnswer["chosen"] \in Form
    /\ rustAt = "validate" => rustAnswer["next"] \in Form
    /\ rustAt = "count" => <<Chosen, rustAnswer["simulation"]>> \in seen
    /\ rustAt = "hash" =>
          \E f, g \in Form : /\ <<Chosen, f>> \in seen /\ <<Chosen, g>> \in seen
                             /\ At(Chosen, f).pubs # At(Chosen, g).pubs

LEMMA RustReadStep ==
    ASSUME KnownInv, RustRead, [Next]_vars
    PROVE  RustRead'
  <1>1. /\ scenario' = scenario /\ seen \subseteq seen'
        /\ ChainTypes /\ ChainKnown /\ RustInv
    BY SameScenario, ChainStep DEF KnownInv
  <1>2. \A b, f : At(b, f)' = At(b, f)
    BY <1>1, SameData
  <1>3. CASE UNCHANGED rustVars
    <2>1. rustAt' = rustAt /\ rustAnswer' = rustAnswer
      BY <1>3 DEF rustVars
    <2>2. rustAt' = "hash" => \E f, g \in Form : /\ <<Chosen, f>> \in seen' /\ <<Chosen, g>> \in seen'
                                                 /\ At(Chosen, f)'.pubs # At(Chosen, g)'.pubs
      BY <1>1, <1>2, <2>1 DEF RustRead
    <2> QED
      BY <1>1, <2>1, <2>2 DEF RustRead
  <1>4. CASE RustStart \/ RustValidate \/ BlockByHash \/ ReadDetails \/ RequestFails
    <2>1. rustAt' \in {"done", "previous", "simulation", "details"}
      BY <1>4 DEF RustStart, RustValidate, BlockByHash, ReadDetails, RequestFails, Return
    <2> QED
      BY <2>1 DEF RustRead
  <1>5. ASSUME NEW r \in Requests, NEW next, Answered(r, next)
        PROVE  /\ rustAnswer'[r] \in Form /\ <<BlockOf(r), rustAnswer'[r]>> \in seen
               /\ \A q \in Requests : q # r => rustAnswer'[q] = rustAnswer[q]
    <2>1. BlockOf(r) \in 1 .. height /\ BlockOf(r) \in Block
      BY <1>1, <1>5, BlockOfType DEF Answered, ChainTypes, Block
    <2> QED
      BY <1>1, <1>5, <2>1 DEF Answered, RustInv, RustTypes, ChainTypes, ChainKnown
  <1>6. CASE ReadPrevious
    <2>1. rustAnswer'["previous"] \in Form
      BY <1>5, <1>6 DEF ReadPrevious, Requests, BlockRequests
    <2> QED
      BY <1>6, <2>1 DEF ReadPrevious, Answered, RustRead
  <1>7. CASE ReadChosen
    <2>1. rustAnswer'["chosen"] \in Form /\ rustAnswer'["previous"] = rustAnswer["previous"]
      BY <1>5, <1>7 DEF ReadChosen, Requests, BlockRequests
    <2> QED
      BY <1>7, <2>1 DEF ReadChosen, Answered, RustRead
  <1>8. CASE ReadNext
    <2>1. /\ rustAnswer'["next"] \in Form /\ rustAnswer'["previous"] = rustAnswer["previous"]
          /\ rustAnswer'["chosen"] = rustAnswer["chosen"]
      BY <1>5, <1>8 DEF ReadNext, Requests, BlockRequests
    <2> QED
      BY <1>8, <2>1 DEF ReadNext, Answered, RustRead
  <1>9. CASE Simulate
    <2>1. <<Chosen, rustAnswer'["simulation"]>> \in seen
      BY <1>5, <1>9, BlockOfType DEF Simulate, Requests, BlockRequests
    <2> QED
      BY <1>1, <1>9, <2>1 DEF Simulate, Answered, RustRead
  <1>10. CASE CountPublications
    <2>1. CASE rustAt' = "done"
      BY <2>1 DEF RustRead
    <2>2. CASE rustAt' = "hash"
      <3>1. /\ rustAt = "count" /\ Chosen <= height
            /\ At(Chosen, rustAnswer["simulation"]).pubs + 1
                  # RustExpected(At(Chosen, form[Chosen]))
        BY <1>10, <2>2 DEF CountPublications, Return
      <3>2. PICK f, g \in Form : f = rustAnswer["simulation"] /\ g = form[Chosen]
        BY <1>1, <3>1 DEF RustRead, ChainTypes, Block, Chosen
      <3>3. <<Chosen, f>> \in seen' /\ <<Chosen, g>> \in seen'
        BY <1>1, <3>1, <3>2 DEF RustRead, ChainTypes, ChainKnown, Block, Chosen
      <3>4. At(Chosen, f)'.pubs # At(Chosen, g)'.pubs
        BY <1>2, <3>1, <3>2 DEF RustExpected
      <3> QED
        BY <2>2, <3>3, <3>4 DEF RustRead
    <2> QED
      BY <1>10, <2>1, <2>2 DEF CountPublications, Return
  <1> QED
    BY <1>3, <1>4, <1>6, <1>7, <1>8, <1>9, <1>10
       DEF Next, vars, NodeStep, ClientStep, RustProgramStep, RustStep

RustBlameInv == rustResult \in RustBlame => ~(Right /\ RightForRust /\ ChosenIsClosest)

LEMMA RustBlamingStep ==
    ASSUME KnownInv, RustRead, program = "rust", RustStep,
           Right, RightForRust, ChosenIsClosest, rustResult' # rustResult
    PROVE  rustResult' \notin RustBlame
  <1>1. /\ ChainTypes /\ ChainKnown /\ RustInv /\ scenario \in Names /\ IsPublication(p)
    BY StateFacts DEF KnownInv, ChainTypes
  <1>2. CASE RustStart
    <2>1. FromJson(p) /\ FirstError(ProofTests(p, upload, setting)) = "none"
      BY <1>1, ProofTestsHold
    <2> QED
      BY <1>2, <2>1 DEF RustStart
  <1>3. CASE ReadPrevious \/ ReadChosen \/ ReadNext \/ Simulate
    BY <1>3 DEF ReadPrevious, ReadChosen, ReadNext, Simulate, Answered
  <1>4. CASE RustValidate
    <2>1. \A r \in BlockRequests : rustAnswer[r] \in Form
      BY <1>4 DEF RustValidate, RustRead, BlockRequests
    <2>2. rustResult' \in {"none", "BlockCantBeReadFromNode"}
      BY <1>1, <1>4, <2>1, ValidateTestsHold DEF RustValidate, Return
    <2> QED
      BY <2>2 DEF RustBlame
  <1>5. CASE CountPublications
    <2>1. PICK simulated : simulated = At(Chosen, rustAnswer["simulation"]).pubs + 1
      OBVIOUS
    <2>2. RightAt(At(Chosen, rustAnswer["simulation"]))
      BY <1>1, <1>5, RightAtSeen DEF CountPublications, RustRead
    <2>3. p.pubId.number = simulated
      BY <2>1, <2>2 DEF RightAt, MayPublish
    <2>4. CrossCheckEvent(p, simulated)
      BY <1>1, <2>3, RightCrossChecks
    <2>5. rustResult' = "accepted"
      BY <1>5, <2>1, <2>4 DEF CountPublications, Return
    <2> QED
      BY <2>5 DEF RustBlame
  <1>6. CASE BlockByHash
    <2>1. PICK f, g \in Form : /\ <<Chosen, f>> \in seen /\ <<Chosen, g>> \in seen
                               /\ At(Chosen, f).pubs # At(Chosen, g).pubs
      BY <1>6 DEF BlockByHash, RustRead
    <2>2. PICK s, t \in State : s = At(Chosen, f) /\ t = At(Chosen, g)
      BY <1>1, <2>1, RightAtSeen
    <2>3. RightAt(s) /\ RightAt(t)
      BY <1>1, <2>1, <2>2, RightAtSeen
    <2>4. s.pubs = t.pubs
      BY <2>2, <2>3 DEF RightAt, MayPublish, State
    <2> QED
      BY <2>1, <2>2, <2>4
  <1>7. CASE ReadDetails
    <2>1. PICK s : s = At(Chosen, form[Chosen])
      OBVIOUS
    <2>2. PICK d : d = LensProfileDetails(s)
      OBVIOUS
    <2>3. <<Chosen, form[Chosen]>> \in seen
      BY <1>1, <1>7 DEF ReadDetails, ChainTypes, ChainKnown, Block, Chosen
    <2>4. RightAt(s)
      BY <1>1, <2>1, <2>3, RightAtSeen
    <2>5. p.nonce = d.nonce /\ p.signer \in {d.delegate, d.owner} /\ RustExpected(d) = s.pubs + 1
      BY <2>2, <2>4 DEF RightAt, MayPublish, LensProfileDetails, RustExpected
    <2>6. CrossCheckEvent(p, RustExpected(d))
      BY <1>1, <2>4, <2>5, RightCrossChecks DEF RightAt, MayPublish
    <2>7. FirstError(SignerTests(p, d) \o
                     <<Test(CrossCheckEvent(p, RustExpected(d)), "EventMismatch")>>) = "none"
      BY <2>5, <2>6, DetailsTestsHold
    <2>8. rustResult' = "accepted"
      BY <1>7, <2>1, <2>2, <2>7 DEF ReadDetails, Return
    <2> QED
      BY <2>8 DEF RustBlame
  <1>8. CASE RequestFails
    <2>1. rustResult' = ErrorOf(rustAt)
      BY <1>8 DEF RequestFails, Return
    <2> QED
      BY <2>1 DEF ErrorOf, RustBlame
  <1> QED
    BY <1>2, <1>3, <1>4, <1>5, <1>6, <1>7, <1>8 DEF RustStep

LEMMA RustBlameStep ==
    ASSUME KnownInv, RustRead, RustBlameInv, [Next]_vars
    PROVE  RustBlameInv'
  <1>1. (Right /\ RightForRust /\ ChosenIsClosest)' => Right /\ RightForRust /\ ChosenIsClosest
    BY SameScenario, ChainStep, RightStays DEF KnownInv
  <1>2. CASE rustResult' = rustResult
    BY <1>1, <1>2 DEF RustBlameInv
  <1>3. CASE rustResult' # rustResult
    <2>1. program = "rust" /\ RustStep
      BY <1>3 DEF Next, vars, rustVars, NodeStep, ClientStep, RustProgramStep
    <2> QED
      BY <1>1, <1>3, <2>1, RustBlamingStep DEF RustBlameInv
  <1> QED
    BY <1>2, <1>3

\* A publication that is right at every form of the chosen block that has been on the
\* chain is not found wrong, whatever chain each of the requests is answered from
\* (da-proof-gateway.ts:34).
THEOREM RightIsNeverBlamed == Spec => []RightIsNotBlamed
  <1>1. Init => NodeBlame /\ RustRead /\ RustBlameInv
    BY DEF Init, NodeInit, RustInit, NodeBlame, RustRead, RustBlameInv, Blame, RustBlame
  <1>2. NodeBlame /\ RustBlameInv => RightIsNotBlamed
    BY DEF NodeBlame, RustBlameInv, RightIsNotBlamed
  <1> QED
    BY <1>1, <1>2, NodeBlameStep, RustReadStep, RustBlameStep, KnownAlways, PTL DEF Spec

-------------------------------------------------------------------------------
(* The test of the closest block *)

\* The node and the client library find the chosen block too far from the timestamp of a
\* publication only when the chain gave out times that do not rise from the block before
\* to the chosen one, or a number of seconds above the number of milliseconds of the
\* timestamp: as the test converts the timestamp once more, however late a publication
\* is, the test does not see it (da-proof-checker.ts:360).
ClosestTestNeverFails == result = "NOT_CLOSEST_BLOCK" => ~BlocksInOrder

\* The errors the tests and the requests end in, but for the test of the closest block.
LEMMA ResultsOfOthers ==
    /\ FirstError(SubmitterTest(upload, setting) \o SubmissionTests(p, upload, setting))
          # "NOT_CLOSEST_BLOCK"
    /\ SubmitterError # "NOT_CLOSEST_BLOCK"
    /\ PostResult # "NOT_CLOSEST_BLOCK" /\ DetailsResult # "NOT_CLOSEST_BLOCK"
  <1>1. FirstError(SubmitterTest(upload, setting) \o SubmissionTests(p, upload, setting))
            \in SubmissionErrors \cup {"none"}
    BY SubmissionTestsFind
  <1>2. FirstError(SubmitterTest(upload, setting) \o SubmissionTests(p, upload, setting))
            # "NOT_CLOSEST_BLOCK"
    BY <1>1 DEF SubmissionErrors
  <1>3. SubmitterError # "NOT_CLOSEST_BLOCK"
    BY <1>2 DEF SubmitterError
  <1>4. PostResult # "NOT_CLOSEST_BLOCK"
    BY DEF PostResult
  <1>5. ASSUME NEW d PROVE /\ SignerErrorV1(d) # "NOT_CLOSEST_BLOCK"
                           /\ SignerErrorV2(d) # "NOT_CLOSEST_BLOCK"
    BY DEF SignerErrorV1, SignerErrorV2
  <1>6. DetailsResult # "NOT_CLOSEST_BLOCK"
    BY <1>5 DEF DetailsResult
  <1> QED
    BY <1>2, <1>3, <1>4, <1>6

LEMMA ClosestStep ==
    ASSUME KnownInv, ClosestTestNeverFails, [Next]_vars
    PROVE  ClosestTestNeverFails'
  <1>1. BlocksInOrder' = BlocksInOrder
    BY SameScenario, SameData DEF BlocksInOrder, At, p
  <1>2. CASE result' = result
    BY <1>1, <1>2 DEF ClosestTestNeverFails
  <1>3. CASE StartCheck \/ ReadOwner
    <2>1. result' # "NOT_CLOSEST_BLOCK" \/ result' = result
      BY <1>3, ReadBlocksResult, ResultsOfOthers DEF StartCheck, ReadOwner
    <2> QED
      BY <1>2, <2>1 DEF ClosestTestNeverFails
  <1>4. CASE ReadPublication \/ ReadTimestampProofs \/ ReadFails \/ OwnerFails
             \/ \E r \in BlockRequests : FailBlock(r)
    <2>1. result' # "NOT_CLOSEST_BLOCK" \/ result' = result
      BY <1>4 DEF ReadPublication, ReadTimestampProofs, ReadFails, OwnerFails, FailBlock, End
    <2> QED
      BY <1>2, <2>1 DEF ClosestTestNeverFails
  <1>5. CASE ValidateChosenBlock
    <2>1. CASE BlocksInOrder
      <3>1. ChosenBlockIsValid
        BY <1>5, <2>1, ChosenIsValid DEF KnownInv, ValidateChosenBlock
      <3>2. result' # "NOT_CLOSEST_BLOCK" \/ result' = result
        BY <1>5, <3>1 DEF ValidateChosenBlock, End
      <3> QED
        BY <1>2, <3>2 DEF ClosestTestNeverFails
    <2>2. CASE ~BlocksInOrder
      BY <1>1, <2>2 DEF ClosestTestNeverFails
    <2> QED
      BY <2>1, <2>2
  <1>6. CASE EndPost \/ EndPointing
    BY <1>6, ResultsOfOthers DEF EndPost, EndPointing, End, ClosestTestNeverFails
  <1>7. \/ StartCheck \/ ReadOwner \/ (\E r \in BlockRequests : FailBlock(r))
        \/ ValidateChosenBlock \/ EndPost \/ EndPointing
        \/ ReadPublication \/ ReadTimestampProofs \/ ReadFails \/ OwnerFails
        \/ result' = result
    BY DEF Next, vars, nodeVars, NodeStep, ClientStep, RustProgramStep, CheckStep,
       LookUpBlock, AnswerBlock, Answers, FailOther, Fails, AnswerSimulation,
       AnswerCount, AnswerDetails, SimulateAfterCount, ClientStart,
       BlockSaves, SaveBlock, SaveByAnother
  <1> QED
    BY <1>2, <1>3, <1>4, <1>5, <1>6, <1>7

\* While the times of the blocks rise, no publication is refused for its block, whatever
\* its timestamp and whichever chain the blocks are read from (da-proof-checker.ts:360).
THEOREM ClosestTestIsBlind == Spec => []ClosestTestNeverFails
  <1>1. Init => ClosestTestNeverFails
    BY DEF Init, NodeInit, ClosestTestNeverFails
  <1> QED
    BY <1>1, ClosestStep, KnownAlways, PTL DEF Spec

-------------------------------------------------------------------------------
(* Every step of a check brings it nearer to its end *)

\* The calls a request may still need: a call that fails is one less.
CallsLeft(r) ==
    CASE request[r] = "none" -> MaxRetries + 5
      [] request[r] = "lookup" -> MaxRetries + 4
      [] request[r] = "asked" -> MaxRetries + 3 - calls[r]
      [] OTHER -> 0

RequestsLeft ==
    CallsLeft("previous") + CallsLeft("chosen") + CallsLeft("next") + CallsLeft("simulation")
    + CallsLeft("count") + CallsLeft("details") + CallsLeft("hash")

StagesLeft ==
    CASE pc = "publication" -> 5 [] pc = "proofs" -> 4 [] pc \in {"start", "owner"} -> 3
      [] pc = "blocks" -> 2 [] pc = "chain" -> 1 [] OTHER -> 0

\* What is left to do of a check of the node or of the client library.
WorkLeft == StagesLeft + (MaxRetries + 2 - calls["owner"]) + RequestsLeft

\* What is left to do of a check of the verifier in Rust.
RustWorkLeft ==
    CASE rustAt = "start" -> 8 [] rustAt = "previous" -> 7 [] rustAt = "chosen" -> 6
      [] rustAt = "next" -> 5 [] rustAt = "validate" -> 4 [] rustAt = "simulation" -> 3
      [] rustAt = "count" -> 2 [] rustAt \in {"hash", "details"} -> 1 [] OTHER -> 0

\* Each step of a check does some of the work that is left, whatever fails, and nothing
\* else adds to it: neither the chain, nor a block that is saved, nor another check.  So
\* a check ends after at most 8 + 8 * (MaxRetries + 5) steps of its own (helpers.ts:126).
ChecksApproachTheirEnd ==
    [][/\ NodeStep \/ ClientStep => WorkLeft' < WorkLeft
       /\ RustProgramStep => RustWorkLeft' < RustWorkLeft
       /\ WorkLeft' <= WorkLeft /\ RustWorkLeft' <= RustWorkLeft
       /\ WorkLeft \in 0 .. 8 + 8 * (MaxRetries + 5)]_vars

LEMMA CallsAreLeft ==
    ASSUME NodeInv'
    PROVE  \A r \in Requests : CallsLeft(r)' \in Nat
  <1> SUFFICES ASSUME NEW r \in Requests
               PROVE  CallsLeft(r)' \in Nat
    OBVIOUS
  <1>1. calls'[r] \in 0 .. MaxRetries + 2 /\ MaxRetries \in Nat
    BY RetryAssumption DEF NodeInv, NodeTypes
  <1> QED
    BY <1>1 DEF CallsLeft

LEMMA WorkIsLeft ==
    ASSUME NodeInv'
    PROVE  WorkLeft' \in Nat
  <1>1. calls'["owner"] \in 0 .. MaxRetries + 2 /\ MaxRetries \in Nat
    BY RetryAssumption DEF NodeInv, NodeTypes, BundlrRequests
  <1>2. PICK a, b, c, d, e, f, g \in Nat :
            /\ a = CallsLeft("previous")' /\ b = CallsLeft("chosen")' /\ c = CallsLeft("next")'
            /\ d = CallsLeft("simulation")' /\ e = CallsLeft("count")'
            /\ f = CallsLeft("details")' /\ g = CallsLeft("hash")'
    BY CallsAreLeft DEF Requests, BlockRequests
  <1>3. RequestsLeft' \in Nat
    BY <1>2 DEF RequestsLeft
  <1>4. StagesLeft' \in Nat
    BY DEF StagesLeft
  <1> QED
    BY <1>1, <1>3, <1>4 DEF WorkLeft

LEMMA CallsLeftType ==
    ASSUME NodeInv, NEW r \in Requests
    PROVE  /\ CallsLeft(r) \in 0 .. MaxRetries + 5
           /\ request[r] = "asked" => CallsLeft(r) = MaxRetries + 3 - calls[r]
                                       /\ calls[r] \in 0 .. MaxRetries + 1
           /\ request[r] = "none" => CallsLeft(r) = MaxRetries + 5
           /\ request[r] = "lookup" => CallsLeft(r) = MaxRetries + 4
           /\ request[r] \in {"answered", "failed"} => CallsLeft(r) = 0
  <1>1. /\ calls[r] \in 0 .. MaxRetries + 2 /\ MaxRetries \in Nat
        /\ request[r] \in {"none", "lookup", "asked", "answered", "failed"}
    BY RetryAssumption DEF NodeInv, NodeTypes
  <1>2. request[r] # "failed" => calls[r] \in 0 .. MaxRetries + 1
    BY <1>1 DEF NodeInv, CallsInv
  <1> QED
    BY <1>1, <1>2 DEF CallsLeft

LEMMA WorkLeftType ==
    ASSUME NodeInv
    PROVE  /\ \A r \in Requests : CallsLeft(r) \in Nat
           /\ RequestsLeft \in Nat /\ StagesLeft \in 0 .. 5
           /\ MaxRetries + 2 - calls["owner"] \in 0 .. MaxRetries + 2
           /\ WorkLeft \in 0 .. 8 + 8 * (MaxRetries + 5)
  <1>1. MaxRetries \in Nat /\ calls["owner"] \in 0 .. MaxRetries + 2
    BY RetryAssumption DEF NodeInv, NodeTypes, BundlrRequests
  <1>2. \A r \in Requests : CallsLeft(r) \in 0 .. MaxRetries + 5
    BY CallsLeftType
  <1>3. PICK a, b, c, d, e, f, g \in 0 .. MaxRetries + 5 :
            /\ a = CallsLeft("previous") /\ b = CallsLeft("chosen") /\ c = CallsLeft("next")
            /\ d = CallsLeft("simulation") /\ e = CallsLeft("count")
            /\ f = CallsLeft("details") /\ g = CallsLeft("hash")
    BY <1>2 DEF Requests, BlockRequests
  <1>4. RequestsLeft \in 0 .. 7 * (MaxRetries + 5)
    BY <1>1, <1>3 DEF RequestsLeft
  <1>5. StagesLeft \in 0 .. 5
    BY DEF StagesLeft
  <1> QED
    BY <1>1, <1>2, <1>4, <1>5 DEF WorkLeft

\* When no request needs more calls than before, and one fewer, less is left.
LEMMA FewerCallsLeft ==
    ASSUME NodeInv, NodeInv', \A r \in Requests : CallsLeft(r)' <= CallsLeft(r)
    PROVE  /\ RequestsLeft' \in Nat /\ RequestsLeft' <= RequestsLeft
           /\ (\E r \in Requests : CallsLeft(r)' < CallsLeft(r)) => RequestsLeft' < RequestsLeft
  <1>1. \A r \in Requests : CallsLeft(r) \in Nat /\ CallsLeft(r)' \in Nat
    BY WorkLeftType, CallsAreLeft
  <1>2. PICK a, b, c, d, e, f, g \in Nat :
            /\ a = CallsLeft("previous") /\ b = CallsLeft("chosen") /\ c = CallsLeft("next")
            /\ d = CallsLeft("simulation") /\ e = CallsLeft("count")
            /\ f = CallsLeft("details") /\ g = CallsLeft("hash")
    BY <1>1 DEF Requests, BlockRequests
  <1>3. PICK a1, b1, c1, d1, e1, f1, g1 \in Nat :
            /\ a1 = CallsLeft("previous")' /\ b1 = CallsLeft("chosen")'
            /\ c1 = CallsLeft("next")' /\ d1 = CallsLeft("simulation")'
            /\ e1 = CallsLeft("count")' /\ f1 = CallsLeft("details")' /\ g1 = CallsLeft("hash")'
    BY <1>1 DEF Requests, BlockRequests
  <1>4. a1 <= a /\ b1 <= b /\ c1 <= c /\ d1 <= d /\ e1 <= e /\ f1 <= f /\ g1 <= g
    BY <1>2, <1>3 DEF Requests, BlockRequests
  <1>5. /\ RequestsLeft = a + b + c + d + e + f + g
        /\ RequestsLeft' = a1 + b1 + c1 + d1 + e1 + f1 + g1
    BY <1>2, <1>3 DEF RequestsLeft
  <1>6. (\E r \in Requests : CallsLeft(r)' < CallsLeft(r)) =>
            a1 < a \/ b1 < b \/ c1 < c \/ d1 < d \/ e1 < e \/ f1 < f \/ g1 < g
    BY <1>2, <1>3 DEF Requests, BlockRequests
  <1> QED
    BY <1>4, <1>5, <1>6

\* What a step does to the requests it leaves alone.
LEMMA CallsLeftStay ==
    ASSUME NEW r, request'[r] = request[r], calls'[r] = calls[r]
    PROVE  CallsLeft(r)' = CallsLeft(r)
  BY DEF CallsLeft

\* When nothing needs more than before, and something less, less is left.
LEMMA WorkFalls ==
    ASSUME NodeInv, NodeInv', StagesLeft' <= StagesLeft, calls["owner"] <= calls'["owner"],
           \A r \in Requests : CallsLeft(r)' <= CallsLeft(r)
    PROVE  /\ WorkLeft' <= WorkLeft
           /\ (\/ StagesLeft' < StagesLeft \/ calls["owner"] < calls'["owner"]
               \/ \E r \in Requests : CallsLeft(r)' < CallsLeft(r))
                  => WorkLeft' < WorkLeft
  <1>1. /\ calls["owner"] \in 0 .. MaxRetries + 2 /\ calls'["owner"] \in 0 .. MaxRetries + 2
        /\ MaxRetries \in Nat /\ calls["owner"] \in Nat /\ calls'["owner"] \in Nat
    BY RetryAssumption DEF NodeInv, NodeTypes, BundlrRequests
  <1>2. StagesLeft \in Nat /\ StagesLeft' \in Nat
    BY DEF StagesLeft
  <1>3. RequestsLeft \in Nat /\ RequestsLeft' \in Nat
    BY WorkLeftType, FewerCallsLeft
  <1>4. /\ RequestsLeft' <= RequestsLeft
        /\ (\E r \in Requests : CallsLeft(r)' < CallsLeft(r)) => RequestsLeft' < RequestsLeft
    BY FewerCallsLeft
  <1>5. PICK a, b, c, d, e, f \in Nat :
            /\ a = StagesLeft /\ b = StagesLeft' /\ c = RequestsLeft /\ d = RequestsLeft'
            /\ e = calls["owner"] /\ f = calls'["owner"]
    BY <1>1, <1>2, <1>3
  <1>6. WorkLeft = a + (MaxRetries + 2 - e) + c /\ WorkLeft' = b + (MaxRetries + 2 - f) + d
    BY <1>5 DEF WorkLeft
  <1>7. b <= a /\ e <= f /\ d <= c
    BY <1>4, <1>5
  <1>8. WorkLeft' <= WorkLeft
    BY <1>1, <1>6, <1>7
  <1>9. ASSUME b < a \/ e < f \/ d < c PROVE WorkLeft' < WorkLeft
    BY <1>1, <1>6, <1>7, <1>9
  <1> QED
    BY <1>4, <1>5, <1>8, <1>9

\* A step that moves one request on.
LEMMA RequestMovesOn ==
    ASSUME NodeInv, NodeInv', NEW r \in Requests, pc' \in {pc, "done"},
           \A q \in Requests \ {r} : request'[q] = request[q] /\ calls'[q] = calls[q],
           calls'["owner"] = calls["owner"], CallsLeft(r)' < CallsLeft(r)
    PROVE  WorkLeft' < WorkLeft
  <1>1. \A q \in Requests : CallsLeft(q) \in Nat /\ CallsLeft(q)' \in Nat
    BY WorkLeftType, CallsAreLeft
  <1>2. \A q \in Requests \ {r} : CallsLeft(q)' = CallsLeft(q)
    BY CallsLeftStay
  <1>3. \A q \in Requests : CallsLeft(q)' <= CallsLeft(q)
    BY <1>1, <1>2
  <1>4. StagesLeft' <= StagesLeft
    BY DEF StagesLeft
  <1>5. calls["owner"] <= calls'["owner"]
    BY DEF NodeInv, NodeTypes, BundlrRequests
  <1> QED
    BY <1>3, <1>4, <1>5, WorkFalls

\* A step that takes the check on, and asks for nothing it did not have to ask for.
LEMMA StageMovesOn ==
    ASSUME NodeInv, NodeInv', StagesLeft' < StagesLeft, calls' = calls,
           \A r \in Requests : \/ request'[r] = request[r]
                               \/ request[r] = "none" /\ request'[r] \in {"lookup", "asked"}
    PROVE  WorkLeft' < WorkLeft
  <1>1. ASSUME NEW r \in Requests PROVE CallsLeft(r)' <= CallsLeft(r)
    <2>1. CASE request'[r] = request[r]
      BY <2>1, CallsLeftStay, WorkLeftType
    <2>2. CASE request[r] = "none" /\ request'[r] \in {"lookup", "asked"}
      <3>1. CallsLeft(r) = MaxRetries + 5
        BY <2>2 DEF CallsLeft
      <3>2. CallsLeft(r)' \in {MaxRetries + 4, MaxRetries + 3 - calls[r]}
        BY <2>2 DEF CallsLeft
      <3>3. MaxRetries \in Nat /\ calls[r] \in Nat
        BY RetryAssumption DEF NodeInv, NodeTypes
      <3> QED
        BY <3>1, <3>2, <3>3
    <2> QED
      BY <2>1, <2>2
  <1>2. StagesLeft' <= StagesLeft
    BY DEF StagesLeft
  <1>3. calls["owner"] <= calls'["owner"]
    BY DEF NodeInv, NodeTypes, BundlrRequests
  <1> QED
    BY <1>1, <1>2, <1>3, WorkFalls

LEMMA AnswerIsProgress ==
    ASSUME NodeInv, NodeInv', NEW r \in Requests,
           LookUpBlock(r) \/ Answers(r) \/ (SimulateAfterCount /\ r = "simulation")
    PROVE  WorkLeft' < WorkLeft
  <1>1. /\ request \in [Requests -> {"none", "lookup", "asked", "answered", "failed"}]
        /\ calls' = calls /\ calls[r] \in 0 .. MaxRetries + 2 /\ MaxRetries \in Nat
    BY RetryAssumption DEF NodeInv, NodeTypes, LookUpBlock, Answers, SimulateAfterCount
  <1>2. /\ pc' = pc
        /\ \/ request[r] = "lookup" /\ request' = [request EXCEPT ![r] = "asked"]
           \/ request[r] = "lookup" /\ request' = [request EXCEPT ![r] = "answered"]
           \/ request[r] = "asked" /\ request' = [request EXCEPT ![r] = "answered"]
           \/ request[r] = "none" /\ request' = [request EXCEPT ![r] = "asked"]
    BY DEF LookUpBlock, Answers, SimulateAfterCount
  <1>3. \A q \in Requests \ {r} : request'[q] = request[q] /\ calls'[q] = calls[q]
    BY <1>1, <1>2
  <1>4. request[r] = "asked" => calls[r] <= MaxRetries + 1
    BY DEF NodeInv, CallsInv
  <1>5. CallsLeft(r)' < CallsLeft(r)
    BY <1>1, <1>2, <1>4 DEF CallsLeft
  <1> QED
    BY <1>1, <1>2, <1>3, <1>5, RequestMovesOn

LEMMA FailureIsProgress ==
    ASSUME NodeInv, NodeInv', NEW r \in Requests, Fails(r), pc' \in {pc, "done"}
    PROVE  WorkLeft' < WorkLeft
  <1>1. /\ request \in [Requests -> {"none", "lookup", "asked", "answered", "failed"}]
        /\ calls \in [Requests \cup BundlrRequests -> 0 .. MaxRetries + 2]
        /\ calls[r] \in 0 .. MaxRetries + 1 /\ MaxRetries \in Nat
    BY RetryAssumption DEF NodeInv, NodeTypes, CallsInv, Fails
  <1>2. /\ request[r] = "asked" /\ request' = [request EXCEPT ![r] = request'[r]]
        /\ request'[r] \in {"asked", "failed"} /\ calls' = [calls EXCEPT ![r] = calls[r] + 1]
    BY <1>1 DEF Fails
  <1>3. /\ \A q \in Requests \ {r} : request'[q] = request[q] /\ calls'[q] = calls[q]
        /\ calls'[r] = calls[r] + 1 /\ calls'["owner"] = calls["owner"]
    BY <1>1, <1>2 DEF Requests, BlockRequests, BundlrRequests
  <1>4. CallsLeft(r)' < CallsLeft(r)
    BY <1>1, <1>2, <1>3 DEF CallsLeft
  <1> QED
    BY <1>3, <1>4, RequestMovesOn

\* The tests before the blocks, and those of the blocks.
LEMMA TestsAreProgress ==
    ASSUME NodeInv, NodeInv',
           StartCheck \/ ReadOwner \/ ReadPublication \/ ReadTimestampProofs
           \/ ValidateChosenBlock \/ EndPost \/ EndPointing
    PROVE  WorkLeft' < WorkLeft
  <1>1. request \in [Requests -> {"none", "lookup", "asked", "answered", "failed"}]
    BY DEF NodeInv, NodeTypes
  <1>2. CASE StartCheck \/ ReadOwner
    <2>1. PICK error, first : first \in {"lookup", "asked"} /\ ReadBlocksUnless(error, first)
      BY <1>2 DEF StartCheck, ReadOwner
    <2>2. pc \in {"start", "owner"} /\ calls' = calls
      BY <1>2 DEF StartCheck, ReadOwner
    <2>3. \A r \in Requests : request[r] = "none"
      BY <2>2 DEF NodeInv, CallsInv, BundlrRequests
    <2>4. pc' \in {"done", "blocks"} /\ \A r \in Requests : request'[r] \in {"none", first}
      BY <2>1, <2>3 DEF ReadBlocksUnless, End
    <2>5. StagesLeft' < StagesLeft
      BY <2>2, <2>4 DEF StagesLeft
    <2>6. \A r \in Requests : \/ request'[r] = request[r]
                              \/ request[r] = "none" /\ request'[r] \in {"lookup", "asked"}
      BY <2>1, <2>3, <2>4
    <2> QED
      BY <2>2, <2>5, <2>6, StageMovesOn
  <1>3. CASE ReadPublication \/ ReadTimestampProofs
    <2>1. /\ \/ pc = "publication" /\ pc' \in {"proofs", "done"}
             \/ pc = "proofs" /\ pc' \in {"owner", "done"}
          /\ request' = request /\ calls' = calls
      BY <1>3 DEF ReadPublication, ReadTimestampProofs, End
    <2>2. StagesLeft' < StagesLeft
      BY <2>1 DEF StagesLeft
    <2> QED
      BY <2>1, <2>2, StageMovesOn
  <1>4. CASE ValidateChosenBlock
    <2>1. pc = "blocks" /\ pc' \in {"chain", "done"} /\ calls' = calls
      BY <1>4 DEF ValidateChosenBlock, End
    <2>2. ASSUME NEW r \in Requests
          PROVE  \/ request'[r] = request[r]
                 \/ request[r] = "none" /\ request'[r] \in {"lookup", "asked"}
      <3>1. r \in FirstRequests => r \notin BlockRequests
        BY DEF FirstRequests, BlockRequests
      <3>2. r \notin BlockRequests => request[r] = "none"
        BY <2>1 DEF NodeInv, CallsInv
      <3> QED
        BY <1>4, <3>1, <3>2 DEF ValidateChosenBlock, End
    <2>3. StagesLeft' < StagesLeft
      BY <2>1 DEF StagesLeft
    <2> QED
      BY <2>1, <2>2, <2>3, StageMovesOn
  <1>5. CASE EndPost \/ EndPointing
    <2>1. pc = "chain" /\ pc' = "done" /\ request' = request /\ calls' = calls
      BY <1>5 DEF EndPost, EndPointing, End
    <2>2. StagesLeft' < StagesLeft
      BY <2>1 DEF StagesLeft
    <2> QED
      BY <2>1, <2>2, StageMovesOn
  <1> QED
    BY <1>2, <1>3, <1>4, <1>5

\* The calls to Bundlr that fail.
LEMMA BundlrFailureIsProgress ==
    ASSUME NodeInv, NodeInv', ReadFails \/ OwnerFails
    PROVE  WorkLeft' < WorkLeft
  <1>1. /\ calls \in [Requests \cup BundlrRequests -> 0 .. MaxRetries + 2]
        /\ MaxRetries \in Nat /\ request' = request
    BY RetryAssumption DEF NodeInv, NodeTypes, ReadFails, OwnerFails
  <1>2. PICK b \in BundlrRequests :
            /\ b = pc /\ calls' = [calls EXCEPT ![b] = calls[b] + 1]
            /\ \/ b \in {"publication", "proofs"} /\ pc' = "done"
               \/ b = "owner" /\ pc' \in {pc, "done"}
    BY DEF ReadFails, OwnerFails, End, BundlrRequests
  <1>3. \A r \in Requests : calls'[r] = calls[r]
    BY <1>1, <1>2 DEF Requests, BlockRequests, BundlrRequests
  <1>4. \A r \in Requests : CallsLeft(r)' <= CallsLeft(r)
    BY <1>1, <1>3, CallsLeftStay, WorkLeftType
  <1>5. CASE b = "owner"
    <2>1. calls["owner"] \in Nat /\ calls'["owner"] = calls["owner"] + 1
      BY <1>1, <1>2, <1>5 DEF BundlrRequests
    <2>2. StagesLeft' <= StagesLeft
      BY <1>2, <1>5 DEF StagesLeft
    <2> QED
      BY <1>4, <2>1, <2>2, WorkFalls
  <1>6. CASE b \in {"publication", "proofs"}
    <2>1. calls["owner"] \in Nat /\ calls'["owner"] = calls["owner"]
      BY <1>1, <1>2, <1>6 DEF BundlrRequests
    <2>2. StagesLeft' <= StagesLeft /\ StagesLeft' < StagesLeft
      BY <1>2, <1>6 DEF StagesLeft
    <2> QED
      BY <1>4, <2>1, <2>2, WorkFalls
  <1> QED
    BY <1>2, <1>5, <1>6 DEF BundlrRequests

LEMMA CheckStepIsProgress ==
    ASSUME NodeInv, NodeInv', NodeStep \/ ClientStep
    PROVE  WorkLeft' < WorkLeft
  <1>1. ASSUME NEW r \in Requests, LookUpBlock(r) \/ Answers(r)
        PROVE  WorkLeft' < WorkLeft
    BY <1>1, AnswerIsProgress
  <1>2. CASE \E r \in BlockRequests : LookUpBlock(r) \/ AnswerBlock(r)
    BY <1>1, <1>2 DEF AnswerBlock, Requests
  <1>3. CASE AnswerSimulation \/ AnswerCount \/ AnswerDetails
    BY <1>1, <1>3 DEF AnswerSimulation, AnswerCount, AnswerDetails, Requests
  <1>4. CASE SimulateAfterCount
    BY <1>4, AnswerIsProgress DEF Requests
  <1>5. CASE \/ \E r \in BlockRequests : FailBlock(r)
             \/ \E r \in Requests \ BlockRequests : FailOther(r)
    <2>1. PICK r \in Requests : Fails(r) /\ pc' \in {pc, "done"}
      BY <1>5 DEF FailBlock, FailOther, End, Requests
    <2> QED
      BY <2>1, FailureIsProgress
  <1> QED
    BY <1>2, <1>3, <1>4, <1>5, TestsAreProgress, BundlrFailureIsProgress
       DEF NodeStep, ClientStep, CheckStep, ClientStart

\* The verifier in Rust makes its requests one after the other.
LEMMA RustStepIsProgress ==
    ASSUME RustStep
    PROVE  RustWorkLeft' < RustWorkLeft
  <1>1. CASE RustStart \/ RustValidate
    BY <1>1 DEF RustStart, RustValidate, Return, RustWorkLeft
  <1>2. CASE ReadPrevious \/ ReadChosen \/ ReadNext \/ Simulate
    BY <1>2 DEF ReadPrevious, ReadChosen, ReadNext, Simulate, Answered, RustWorkLeft
  <1>3. CASE CountPublications \/ BlockByHash \/ ReadDetails
    BY <1>3 DEF CountPublications, BlockByHash, ReadDetails, Return, RustWorkLeft
  <1>4. CASE RequestFails
    BY <1>4 DEF RequestFails, Return, RustWorkLeft, Requests, BlockRequests
  <1> QED
    BY <1>1, <1>2, <1>3, <1>4 DEF RustStep

\* Each step of a check is progress, and nothing undoes it.
THEOREM ChecksAreProgress == Spec => ChecksApproachTheirEnd
  <1> DEFINE Progress == /\ NodeStep \/ ClientStep => WorkLeft' < WorkLeft
                         /\ RustProgramStep => RustWorkLeft' < RustWorkLeft
                         /\ WorkLeft' <= WorkLeft /\ RustWorkLeft' <= RustWorkLeft
                         /\ WorkLeft \in 0 .. 8 + 8 * (MaxRetries + 5)
  <1>1. KnownInv /\ KnownInv' /\ [Next]_vars => [Progress]_vars
    <2> SUFFICES ASSUME KnownInv, KnownInv', Next
                 PROVE  Progress
      BY DEF vars
    <2>1. NodeInv /\ NodeInv' /\ WorkLeft \in 0 .. 8 + 8 * (MaxRetries + 5)
      BY WorkLeftType DEF KnownInv
    <2>2. /\ WorkLeft \in Nat /\ RustWorkLeft \in Nat
          /\ WorkLeft' \in Nat /\ RustWorkLeft' \in Nat
      BY <2>1, WorkIsLeft, RetryAssumption DEF RustWorkLeft
    <2>3. /\ UNCHANGED nodeVars \/ UNCHANGED <<request, calls, pc>> => WorkLeft' = WorkLeft
          /\ UNCHANGED rustVars => RustWorkLeft' = RustWorkLeft
      BY DEF WorkLeft, StagesLeft, RequestsLeft, CallsLeft, nodeVars, RustWorkLeft, rustVars
    <2>4. CASE NodeStep \/ ClientStep
      <3>1. WorkLeft' < WorkLeft
        BY <2>1, <2>4, CheckStepIsProgress
      <3>2. ~RustProgramStep /\ UNCHANGED rustVars
        BY <2>4 DEF NodeStep, ClientStep, RustProgramStep
      <3>3. WorkLeft' <= WorkLeft
        BY <2>2, <3>1
      <3> QED
        BY <2>1, <2>2, <2>3, <3>1, <3>2, <3>3
    <2>5. CASE RustProgramStep
      <3>1. RustWorkLeft' < RustWorkLeft
        BY <2>5, RustStepIsProgress DEF RustProgramStep
      <3>2. UNCHANGED nodeVars /\ ~(NodeStep \/ ClientStep)
        BY <2>5 DEF NodeStep, ClientStep, RustProgramStep
      <3>3. WorkLeft' = WorkLeft /\ RustWorkLeft' <= RustWorkLeft
        BY <2>2, <2>3, <3>1, <3>2
      <3> QED
        BY <2>1, <2>2, <3>1, <3>2, <3>3
    <2>6. CASE ~(NodeStep \/ ClientStep) /\ ~RustProgramStep
      <3>1. UNCHANGED rustVars /\ UNCHANGED <<request, calls, pc>>
        BY <2>6 DEF Next, BlockSaves, SaveBlock, SaveByAnother, nodeVars
      <3> QED
        BY <2>1, <2>2, <2>3, <2>6, <3>1
    <2> QED
      BY <2>4, <2>5, <2>6
  <1> QED
    BY <1>1, KnownAlways, PTL DEF Spec, ChecksApproachTheirEnd

===============================================================================
