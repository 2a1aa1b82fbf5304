----------------------------- MODULE ProofChecker -----------------------------
(***************************************************************************)
(* DaProofChecker: the checks of one publication, await by await, and of   *)
(* the publication it points to.  What is wrong with a publication is the  *)
(* set of errors it deserves; a stage of a check returns the first of its  *)
(* errors that is among them.  In between, Bundlr and the archive node     *)
(* answer or do not, blocks leave the chain, and other checks of the node  *)
(* save their results.  The lookup of the chain signature is in            *)
(* ProofsBatch and left out here.                                          *)
(***************************************************************************)
EXTENDS Naturals, Sequences, FiniteSets

CONSTANTS
    Publications,
    Pointer,        \* the publication a comment, mirror or quote points to
    NoPointer,      \* what Pointer is for a post
    DefectCases,    \* the assignments of errors to publications to consider
    Checkers,       \* the checks that run at the same time
    MaxReorgs       \* bound on the blocks that leave the chain or come back

ASSUME PointerAssumption ==
    /\ NoPointer \notin Publications
    /\ Pointer \in [Publications -> Publications \cup {NoPointer}]

ASSUME BoundAssumption == MaxReorgs \in Nat

IsPost(t) == Pointer[t] = NoPointer

\* The stages of checkDAProof and of checkDAProofWithMetadata.
Proof == <<"signer", "receipt", "timestamps", "blocks", "publicationId", "pointer",
           "typedData", "chain", "event">>
Entry == {"id", "metadata"}
Stages(entry) ==
    IF entry = "id" THEN <<"cache", "publication", "timestampProofs", "owner">> \o Proof
                    ELSE <<"cache", "owner">> \o Proof

\* createDAPublicationVerifier and verifyPublicationIdMatches.
PublicationIdErrors == <<"PUBLICATION_NOT_RECOGNIZED", "GENERATED_PUBLICATION_ID_MISMATCH">>

\* What checkDAPost, checkDAComment, checkDAMirror and checkDAQuote require of the
\* pointer before anything else.
PostPointerErrors == <<"INVALID_POINTER_SET_NOT_NEEDED">>
PointerErrors == <<"PUBLICATION_NO_POINTER", "PUBLICATION_NONE_DA">>

\* What the archive node's answers are compared with: verifySimulation of a post,
\* verifySigner of the others.
SimulationErrors == <<"SIMULATION_FAILED">>
SignerErrors == <<"PUBLICATION_NONCE_INVALID", "PUBLICATION_SIGNER_NOT_ALLOWED">>

\* The errors a stage looks for, in the order of the code.
Errors(t, stage) ==
    CASE stage \in {"publication", "timestampProofs"} -> <<"INVALID_TX_ID">>
      [] stage = "owner" -> <<"TIMESTAMP_PROOF_NOT_SUBMITTER">>
      [] stage = "signer" -> <<"NO_SIGNATURE_SUBMITTER", "INVALID_SIGNATURE_SUBMITTER">>
      [] stage = "receipt" ->
            <<"TIMESTAMP_PROOF_INVALID_SIGNATURE", "TIMESTAMP_PROOF_INVALID_TYPE",
              "TIMESTAMP_PROOF_INVALID_DA_ID">>
      [] stage = "timestamps" ->
            <<"INVALID_EVENT_TIMESTAMP", "INVALID_TYPED_DATA_DEADLINE_TIMESTAMP">>
      [] stage = "blocks" -> <<"NOT_CLOSEST_BLOCK">>
      [] stage = "publicationId" -> PublicationIdErrors
      [] stage = "pointer" -> IF IsPost(t) THEN PostPointerErrors ELSE PointerErrors
      [] stage = "typedData" -> <<"INVALID_FORMATTED_TYPED_DATA">>
      [] stage = "chain" -> IF IsPost(t) THEN SimulationErrors ELSE SignerErrors
      [] stage = "event" -> <<"EVENT_MISMATCH">>
      [] OTHER -> <<>>

ErrorSet(t, stage) == {Errors(t, stage)[i] : i \in 1 .. Len(Errors(t, stage))}

\* The errors that blame the publication t.
Blame(t) == UNION {ErrorSet(t, Stages("id")[i]) : i \in 1 .. Len(Stages("id"))}

ASSUME DefectsAssumption ==
    /\ DefectCases \subseteq [Publications -> SUBSET UNION {Blame(t) : t \in Publications}]
    /\ \A d \in DefectCases : \A t \in Publications : d[t] \subseteq Blame(t)

\* What the archive node not answering comes to, after the retries.
SimulationUnanswered == {"SIMULATION_NODE_COULD_NOT_RUN", "DATA_CANT_BE_READ_FROM_NODE"}
DetailsUnanswered == {"DATA_CANT_BE_READ_FROM_NODE"}
BlocksUnanswered == {"BLOCK_CANT_BE_READ_FROM_NODE", "UNKNOWN"}

\* What a stage returns when Bundlr or the archive node does not answer.
\* getOwnerOfTransactionAPI throws, and the check with it: UNKNOWN.
ThirdParty(t, entry, stage) ==
    CASE stage \in {"publication", "timestampProofs"} -> {"CAN_NOT_CONNECT_TO_BUNDLR"}
      [] stage = "owner" -> IF entry = "id" THEN {"UNKNOWN"} ELSE {}
      [] stage = "blocks" -> BlocksUnanswered
      [] stage = "chain" -> IF IsPost(t) THEN SimulationUnanswered ELSE DetailsUnanswered
      [] OTHER -> {}

Retriable == {"UNKNOWN", "CAN_NOT_CONNECT_TO_BUNDLR", "BLOCK_CANT_BE_READ_FROM_NODE",
              "DATA_CANT_BE_READ_FROM_NODE", "SIMULATION_NODE_COULD_NOT_RUN"}

ShouldRetry(e) == e \in Retriable

\* What a check returns and tx:<id> holds, "none" before.
Result ==
    {"none", "ok", "POINTER_FAILED_VERIFICATION", "POTENTIAL_REORG"}
        \cup Retriable \cup UNION {Blame(t) : t \in Publications}

VARIABLES
    defects,        \* the errors each publication deserves
    checks,         \* the check each checker runs
    record,         \* what tx:<id> holds: "none", "ok" or the error
    reorged,        \* publications whose block hash left the chain
    reorgs          \* how often that changed

vars == <<defects, checks, record, reorged, reorgs>>

\* A check: stack holds the publication's and, on top, its pointer's; returned is
\* what it returned.  The rest is history: whether someone did not answer,
\* whether a block was gone, whether a record was the answer, and what the
\* record of the pointer was when the pointer was checked.
Frame == [tx : Publications, entry : Entry, key : {"plain", "ar"}, at : Nat]
Check == [tx : Publications \cup {NoPointer}, stack : Seq(Frame), verifyPointer : BOOLEAN,
          returned : Result, unanswered : BOOLEAN, gone : BOOLEAN, cached : BOOLEAN,
          saves : BOOLEAN, pointerRecord : Result]

Idle == [tx |-> NoPointer, stack |-> <<>>, verifyPointer |-> TRUE, returned |-> "none",
         unanswered |-> FALSE, gone |-> FALSE, cached |-> FALSE, saves |-> FALSE,
         pointerRecord |-> "none"]

Top(c) == checks[c].stack[Len(checks[c].stack)]
Running(c) == checks[c].stack # <<>>
Ended(c) == checks[c].tx # NoPointer /\ ~Running(c)
Await(c) == Stages(Top(c).entry)[Top(c).at]

\* Wrong: one stage too many.
LastTooLate(c) == Top(c).at > Len(Stages(Top(c).entry))

Last(c) == Top(c).at = Len(Stages(Top(c).entry))

TypeOK ==
    /\ defects \in [Publications -> SUBSET Result]
    /\ record \in [Publications -> Result]
    /\ reorged \subseteq Publications /\ reorgs \in 0 .. MaxReorgs
    /\ checks \in [Checkers -> Check]
    /\ \A c \in Checkers : \A i \in 1 .. Len(checks[c].stack) :
          checks[c].stack[i].at \in 1 .. Len(Stages(checks[c].stack[i].entry))

Init ==
    /\ defects \in DefectCases
    /\ checks = [c \in Checkers |-> Idle]
    /\ record = [t \in Publications |-> "none"]
    /\ reorged = {} /\ reorgs = 0

Pop(s) == SubSeq(s, 1, Len(s) - 1)
Advance(s) == [s EXCEPT ![Len(s)].at = @ + 1]

\* Wrong: the error of the pointer is returned as the publication's own.
ReturnsPointersError(k, r, thrown) ==
    IF Len(k.stack) = 1 THEN [k EXCEPT !.stack = <<>>, !.returned = r]
    ELSE IF r = "ok" THEN [k EXCEPT !.stack = Advance(Pop(@))]
    ELSE [k EXCEPT !.stack = <<>>, !.returned = r]

\* Wrong: the check goes on with the pointer it has just checked.
ReturnsToPointer(k, r, thrown) ==
    IF Len(k.stack) = 1 THEN [k EXCEPT !.stack = <<>>, !.returned = r]
    ELSE IF r = "ok" THEN [k EXCEPT !.stack = Pop(@)]
    ELSE [k EXCEPT !.stack = <<>>,
                   !.returned = IF thrown THEN r ELSE "POINTER_FAILED_VERIFICATION"]

\* The check on top of k returns r.  A pointer's result lets the check below go
\* on, or fails it.  What was thrown goes through both.
Returns(k, r, thrown) ==
    IF Len(k.stack) = 1 THEN [k EXCEPT !.stack = <<>>, !.returned = r]
    ELSE IF r = "ok" THEN [k EXCEPT !.stack = Advance(Pop(@))]
    ELSE [k EXCEPT !.stack = <<>>,
                   !.returned = IF thrown THEN r ELSE "POINTER_FAILED_VERIFICATION"]

Passes(k) == [k EXCEPT !.stack = Advance(@)]

Become(c, k) ==
    /\ checks' = [checks EXCEPT ![c] = k]
    /\ UNCHANGED <<defects, record, reorged, reorgs>>

-------------------------------------------------------------------------------

\* The index of the stage a check begins with: byPassDb leaves the lookups out.
First(byPassDb) == IF byPassDb THEN 2 ELSE 1

\* A check with metadata is the node's: it has the publication already, always
\* verifies the pointer and saves the result.  A check by id is the caller's.
Start(c, t, entry, byPassDb, verifyPointer) ==
    /\ checks[c] = Idle
    /\ entry = "metadata" => verifyPointer /\ "INVALID_TX_ID" \notin defects[t]
    /\ Become(c, [Idle EXCEPT
            !.tx = t,
            !.stack = <<[tx |-> t, entry |-> entry, key |-> "plain", at |-> First(byPassDb)]>>,
            !.verifyPointer = verifyPointer,
            !.saves = entry = "metadata"])

\* txAlreadyChecked looks the id up as it was given, a pointer's with "ar://" in
\* front, under which nothing is saved.
Recorded(f) == f.key = "plain" /\ record[f.tx] # "none"

ReadCache(c) ==
    /\ Running(c) /\ Await(c) = "cache"
    /\ IF Recorded(Top(c))
       THEN Become(c, Returns([checks[c] EXCEPT !.cached = TRUE], record[Top(c).tx], FALSE))
       ELSE Become(c, Passes(checks[c]))

\* Wrong: any error of a stage that the publication deserves.
AppliesInAnyOrder(t, stage, i) == Errors(t, stage)[i] \in defects[t]

\* The first error of a stage that the publication deserves.
Applies(t, stage, i) ==
    /\ Errors(t, stage)[i] \in defects[t]
    /\ \A j \in 1 .. i - 1 : Errors(t, stage)[j] \notin defects[t]

Clean(t, stage) == ErrorSet(t, stage) \cap defects[t] = {}

\* blockHashExists answers with a result object, which is true whatever it holds.
BlockHashExists(t) == TRUE

\* The simulation of a post failed: was the block lost?
SimulationError(t) == IF BlockHashExists(t) THEN "SIMULATION_FAILED" ELSE "POTENTIAL_REORG"

StageError(t, e) == IF e = "SIMULATION_FAILED" THEN SimulationError(t) ELSE e

Fail(c) ==
    /\ Running(c)
    /\ \E i \in 1 .. Len(Errors(Top(c).tx, Await(c))) :
          /\ Applies(Top(c).tx, Await(c), i)
          /\ Become(c, Returns(checks[c], StageError(Top(c).tx, Errors(Top(c).tx, Await(c))[i]),
                               FALSE))

\* The block is no longer in the chain, and what took its place does not bear
\* the publication out.
FailOnLostBlock(c) ==
    /\ Running(c) /\ Await(c) \in {"blocks", "chain", "event"}
    /\ Top(c).tx \in reorged
    /\ Clean(Top(c).tx, Await(c))
    /\ \E e \in ErrorSet(Top(c).tx, Await(c)) :
          Become(c, Returns([checks[c] EXCEPT !.gone = TRUE], StageError(Top(c).tx, e), FALSE))

NoAnswer(c) ==
    /\ Running(c)
    /\ \E e \in ThirdParty(Top(c).tx, Top(c).entry, Await(c)) :
          Become(c, Returns([checks[c] EXCEPT !.unanswered = TRUE], e,
                            Await(c) = "owner"))

\* Wrong: a publication that fails a stage's second test passes.
PassOnFirstTest(c) ==
    /\ Running(c) /\ Await(c) \notin {"cache", "pointer"}
    /\ LET errors == Errors(Top(c).tx, Await(c))
       IN errors = <<>> \/ Head(errors) \notin defects[Top(c).tx]
    /\ Become(c, IF Last(c) THEN Returns(checks[c], "ok", FALSE) ELSE Passes(checks[c]))

\* The publication passes a stage; the last one ends its check.
Succeed(c) ==
    /\ Running(c) /\ Await(c) \notin {"cache", "pointer"}
    /\ Clean(Top(c).tx, Await(c))
    /\ Become(c, IF Last(c) THEN Returns(checks[c], "ok", FALSE) ELSE Passes(checks[c]))

\* The pointer is checked with verifyPointer false.
VerifyPointer(k) == k.verifyPointer /\ Len(k.stack) = 1

\* checkDAPost, checkDAComment, checkDAMirror and checkDAQuote, up to the check of
\* the pointer, which always goes by the pointer's location and asks the database.
SucceedPointer(c) ==
    /\ Running(c) /\ Await(c) = "pointer"
    /\ Clean(Top(c).tx, "pointer")
    /\ LET k == checks[c]
           q == Pointer[Top(c).tx]
       IN IF IsPost(Top(c).tx) \/ ~VerifyPointer(k)
          THEN Become(c, Passes(k))
          ELSE Become(c, [k EXCEPT
                  !.stack = Append(@, [tx |-> q, entry |-> "id", key |-> "ar", at |-> 1]),
                  !.pointerRecord = record[q]])

\* processPublication saves the result of the node's check; the caller of a check
\* by id gets its own.
Finish(c) ==
    /\ Ended(c)
    /\ checks' = [checks EXCEPT ![c] = Idle]
    /\ record' = IF checks[c].saves THEN [record EXCEPT ![checks[c].tx] = checks[c].returned]
                                    ELSE record
    /\ UNCHANGED <<defects, reorged, reorgs>>

\* A block leaves the chain, or comes back.
Reorg(t) ==
    /\ reorgs < MaxReorgs
    /\ reorgs' = reorgs + 1
    /\ reorged' = IF t \in reorged THEN reorged \ {t} ELSE reorged \cup {t}
    /\ UNCHANGED <<defects, checks, record>>

CheckStep(c) ==
    \/ ReadCache(c)
    \/ Fail(c)
    \/ FailOnLostBlock(c)
    \/ NoAnswer(c)
    \/ Succeed(c)
    \/ SucceedPointer(c)
    \/ Finish(c)

Next ==
    \/ \E c \in Checkers : CheckStep(c)
    \/ \E c \in Checkers, t \in Publications, entry \in Entry, b, v \in BOOLEAN :
          Start(c, t, entry, b, v)
    \/ \E t \in Publications : Reorg(t)

Spec == Init /\ [][Next]_vars

-------------------------------------------------------------------------------
(* Properties *)

\* Only the first pointer is checked, not the pointer's own (README.md:101).
OnlyFirstPointer == \A c \in Checkers : Len(checks[c].stack) <= 2

Sound(t) == defects[t] = {}
SoundWithPointer(t) == Sound(t) /\ (IsPost(t) \/ Sound(Pointer[t]))

\* Whatever did not answer, was lost in a reorg or came from the database on the
\* way, a publication is accepted only if nothing is wrong with it and, unless
\* the caller did not ask, with the publication it points to.  That holds of the
\* records too, which later checks are answered with.
AcceptedIsSound ==
    /\ \A t \in Publications : record[t] = "ok" => SoundWithPointer(t)
    /\ \A c \in Checkers : Ended(c) /\ checks[c].returned = "ok" =>
          /\ Sound(checks[c].tx)
          /\ checks[c].verifyPointer => SoundWithPointer(checks[c].tx)

\* A final error blames the publication for what is wrong with it, or its pointer
\* for something, unless the chain changed, a pointer went unanswered or the
\* error is a recorded one.
RejectionIsFounded ==
    \A c \in Checkers : LET k == checks[c] IN
        Ended(c) /\ ~k.cached /\ k.returned # "ok" /\ ~ShouldRetry(k.returned) =>
            \/ k.gone
            \/ k.returned \in defects[k.tx]
            \/ /\ k.returned = "POINTER_FAILED_VERIFICATION" /\ ~IsPost(k.tx)
               /\ k.unanswered \/ ~Sound(Pointer[k.tx])

\* What a check with or without the check of the pointer requires of the pointer.
PointerHolds(t, verify) == verify /\ ~IsPost(t) => Sound(Pointer[t])

\* r is the first error that t deserves of a stage.
FirstOfStage(t, stage, r) ==
    \E i \in 1 .. Len(Errors(t, stage)) :
        /\ r = Errors(t, stage)[i] /\ r \in defects[t]
        /\ \A j \in 1 .. i - 1 : Errors(t, stage)[j] \notin defects[t]

\* r is the first error of all, the pointer's check having its place among them.
IsFirstError(t, verify, r) ==
    \E i \in 1 .. Len(Stages("id")) :
        LET stage == Stages("id")[i]
            before == {Stages("id")[j] : j \in 1 .. i - 1}
        IN /\ \A s \in before : Clean(t, s)
           /\ "pointer" \in before => PointerHolds(t, verify)
           /\ \/ FirstOfStage(t, stage, r)
              \/ /\ stage = "pointer" /\ Clean(t, stage) /\ ~PointerHolds(t, verify)
                 /\ r = "POINTER_FAILED_VERIFICATION"

Undisturbed(k) == ~k.cached /\ ~k.gone /\ ~k.unanswered

\* What a check returns when everybody answers, no block is lost and nothing is on
\* record is decided by the publication and its pointer alone: it is the first error in the
\* order of the stages, by whichever of the two entries and whatever was looked up before
\* (da-proof-checker.ts:200-269).  Two such checks of a publication agree.  The order is
\* that of the code.  momoka-node/README.md:291-395 lists another one, which the code
\* does not follow: there the submitter of the timestamp proofs comes after their receipt,
\* the id of the publication last, after the comparison of the event, and the error of
\* the pointer is returned as it is (349) where the code returns POINTER_FAILED_VERIFICATION.
FirstErrorIsReturned ==
    \A c \in Checkers : LET k == checks[c] IN
        Ended(c) /\ Undisturbed(k) /\ k.returned # "ok" =>
            IsFirstError(k.tx, k.verifyPointer, k.returned)

\* How much a check may still have before it: the stages of its publication, and those of
\* the pointer while it checks that one.
Remaining(f) == Len(Stages(f.entry)) - f.at + 1
MostRemaining == Len(Stages("id"))
Rank(k) ==
    CASE k.stack = <<>> -> IF k.tx = NoPointer THEN 0 ELSE 1
      [] Len(k.stack) = 1 -> 1 + (MostRemaining + 1) * Remaining(k.stack[1])
      [] OTHER -> 1 + (MostRemaining + 1) * (Remaining(k.stack[1]) - 1) + Remaining(k.stack[2])

\* A check never goes back: not to a stage it has passed, nor to a pointer it has checked.
\* So it ends after a number of awaits that its entry bounds, however the answers, the
\* records and the blocks change in between (da-proof-checker.ts:137-189, 430-484).
EveryStepIsProgress ==
    [][\A c \in Checkers :
          checks[c] # Idle /\ checks'[c] # checks[c] => Rank(checks'[c]) < Rank(checks[c])]_vars

\* "The verifier will retry these errors later" (README.md:73), said of the errors
\* of third-party software: a check to which someone did not answer ends with an
\* error that is retried.
ThirdPartyErrorsAreRetried ==
    \A c \in Checkers : Ended(c) /\ checks[c].unanswered => ShouldRetry(checks[c].returned)

\* "Rerunning the proofs would return a POTENTIAL_REORG error" (README.md:125): a
\* post does not fail its simulation for a block that left the chain.
ReorgIsReported ==
    \A c \in Checkers : Ended(c) /\ checks[c].gone => checks[c].returned # "SIMULATION_FAILED"

\* "If the transaction ID is found in the database, returns either a success or
\* failure result" (da-proof-checker.ts:488): nothing is accepted on account of a
\* pointer that the node has rejected for good.
RejectedPointerStaysRejected ==
    \A c \in Checkers : LET k == checks[c] IN
        Ended(c) /\ k.returned = "ok" =>
            k.pointerRecord \in {"none", "ok"} \/ ShouldRetry(k.pointerRecord)

===============================================================================
