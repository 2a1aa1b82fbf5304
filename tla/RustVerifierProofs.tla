-------------------------- MODULE RustVerifierProofs --------------------------
(***************************************************************************)
(* The safety of RustVerifier, for any number of transactions and starts,  *)
(* any pages, signatures and pointers.                                     *)
(***************************************************************************)
EXTENDS RustVerifier, TLAPS

Active(t) == stage[t] \in {"queued", "pointer", "proof"}

\* What the cursor, the page and the results say of each other.
PageInv ==
    /\ \A t \in Transactions : outcome[t] # "none" => t <= endCursor
    /\ \A t \in batch : t <= endCursor
    /\ pc = "fetch" => batch = {}
    /\ pc = "bulk" => \A t \in batch : outcome[t] = "none"
    /\ pc \in {"pointers", "check"} =>
          \A t \in batch : stage[t] \in {"idle", "done"} => outcome[t] # "none"

\* The futures under way are those of the page.
ActiveInv ==
    \A t \in Transactions : Active(t) => t \in batch /\ pc \in {"pointers", "check", "down"}

\* What was established before the await of process_proof, the pointer and the
\* signature, still holds after it.
ProofInv ==
    \A t \in Transactions : stage[t] = "proof" =>
        /\ Pointer[t] # 0 => defect[Pointer[t]] = "none"
        /\ \A u \in Transactions \ batch : Signature[u] = Signature[t] => outcome[u] # "ok"

PairInv == \A t \in Transactions : proofs[t] \in {0, t}

AcceptedInv == \A t \in Transactions : outcome[t] = "ok" => Signature[t] \in sigCache

\* The first part of RejectionIsFounded, which needs nothing of the caches.
FailureIsFounded ==
    \A t \in Transactions : outcome[t] = "failed" =>
        defect[t] # "none" \/ t \in unanswered \/ proofs[t] = 0

IInv ==
    /\ TypeOK
    /\ PageInv /\ ActiveInv /\ ProofInv /\ PairInv /\ AcceptedInv
    /\ CursorBehindChecks /\ AcceptedIsSound /\ FailureIsFounded

Sound(t) == defect[t] = "none" /\ (Pointer[t] # 0 => defect[Pointer[t]] = "none")

Founded(t) == defect[t] # "none" \/ t \in unanswered \/ proofs[t] = 0

-------------------------------------------------------------------------------

\* A future that goes on to stage s or returns r keeps the invariant, if it looked at
\* the pointer and the signature before it asks for the proof, and if what it returns
\* is deserved.
LEMMA FutureKeeps ==
    ASSUME IInv, NEW t \in batch, pc = "check", FutureUnchanged,
           NEW s \in {"pointer", "proof", "done"}, NEW r \in Outcome,
           stage' = [stage EXCEPT ![t] = s],
           outcome' = [outcome EXCEPT ![t] = r],
           txCache' \in [Transactions -> {"none", "ok", "failed"}],
           sigCache \subseteq sigCache', sigCache' \subseteq Signatures,
           unanswered \subseteq unanswered', unanswered' \subseteq Transactions,
           s # "done" => r = outcome[t],
           s = "proof" => Signature[t] \notin sigCache
                          /\ (Pointer[t] # 0 => defect[Pointer[t]] = "none"),
           s = "done" => /\ r # "none"
                         /\ r = "ok" => Sound(t) /\ Signature[t] \in sigCache'
                         /\ r = "failed" => Founded(t)'
    PROVE  IInv'
<1>1. t \in Transactions
  BY DEF IInv, TypeOK
<1>2. /\ defect' = defect /\ submitted' = submitted /\ pc' = pc /\ endCursor' = endCursor
      /\ batch' = batch /\ proofs' = proofs /\ fetched' = fetched
      /\ bootCursor' = bootCursor /\ starts' = starts
  BY DEF FutureUnchanged
<1>3. stage \in [Transactions -> {"idle", "queued", "pointer", "proof", "done"}]
      /\ outcome \in [Transactions -> Outcome]
  BY DEF IInv, TypeOK
<1>4. \A u \in Transactions : u # t => stage'[u] = stage[u] /\ outcome'[u] = outcome[u]
  BY <1>1, <1>3
<1>5. stage'[t] = s /\ outcome'[t] = r
  BY <1>1, <1>3
<1>6. TypeOK'
  <2>1. stage' \in [Transactions -> {"idle", "queued", "pointer", "proof", "done"}]
        /\ outcome' \in [Transactions -> Outcome]
    BY <1>1, <1>3
  <2>2. QED
    BY <1>2, <2>1 DEF IInv, TypeOK
<1>7. PageInv'
  BY <1>1, <1>2, <1>4, <1>5 DEF IInv, PageInv
<1>8. ActiveInv'
  BY <1>1, <1>2, <1>4, <1>5 DEF IInv, ActiveInv, Active
<1>9. ProofInv'
  <2>1. \A u \in Transactions \ batch : u # t
    OBVIOUS
  <2>2. ASSUME NEW u \in Transactions, u # t, stage'[u] = "proof"
        PROVE  /\ Pointer[u] # 0 => defect[Pointer[u]] = "none"
               /\ \A v \in Transactions \ batch : Signature[v] = Signature[u] => outcome[v] # "ok"
    BY <1>4, <2>2 DEF IInv, ProofInv
  <2>3. ASSUME s = "proof"
        PROVE  /\ Pointer[t] # 0 => defect[Pointer[t]] = "none"
               /\ \A v \in Transactions \ batch : Signature[v] = Signature[t] => outcome[v] # "ok"
    BY <2>3 DEF IInv, AcceptedInv
  <2>4. QED
    BY <1>2, <1>4, <1>5, <2>1, <2>2, <2>3 DEF ProofInv
<1>10. PairInv'
  BY <1>2 DEF IInv, PairInv
<1>11. AcceptedInv'
  BY <1>1, <1>4, <1>5 DEF IInv, AcceptedInv
<1>12. CursorBehindChecks'
  BY <1>1, <1>2, <1>4, <1>5 DEF IInv, CursorBehindChecks
<1>13. AcceptedIsSound'
  BY <1>1, <1>2, <1>4, <1>5 DEF IInv, AcceptedIsSound, Sound
<1>14. FailureIsFounded'
  <2>1. ASSUME NEW u \in Transactions, u # t, outcome'[u] = "failed"
        PROVE  Founded(u)'
    BY <1>2, <1>4, <2>1 DEF IInv, FailureIsFounded, Founded
  <2>2. outcome'[t] = "failed" => Founded(t)'
    BY <1>1, <1>2, <1>5 DEF IInv, FailureIsFounded, Founded
  <2>3. QED
    BY <1>2, <2>1, <2>2 DEF FailureIsFounded, Founded
<1>15. QED
  BY <1>6, <1>7, <1>8, <1>9, <1>10, <1>11, <1>12, <1>13, <1>14 DEF IInv

\* A result that is cached is in the caches, and the caches keep their types.
LEMMA CacheResultKeeps ==
    ASSUME IInv, NEW t \in Transactions, NEW r \in {"ok", "failed"}, CacheResult(t, r)
    PROVE  /\ txCache' \in [Transactions -> {"none", "ok", "failed"}]
           /\ sigCache \subseteq sigCache' /\ sigCache' \subseteq Signatures
           /\ Signature[t] \in sigCache'
BY PublicationAssumption DEF IInv, TypeOK, CacheResult

LEMMA NotCachedKeeps ==
    ASSUME IInv, NotCached
    PROVE  /\ txCache' \in [Transactions -> {"none", "ok", "failed"}]
           /\ sigCache \subseteq sigCache' /\ sigCache' \subseteq Signatures
BY DEF IInv, TypeOK, NotCached

\* The own part of a future begins when nothing is wrong with the pointer.
LEMMA OwnPartKeeps ==
    ASSUME IInv, NEW t \in batch, pc = "check", FutureUnchanged, unanswered' = unanswered,
           OwnPart(t), Pointer[t] # 0 => defect[Pointer[t]] = "none"
    PROVE  IInv'
<1>1. t \in Transactions /\ unanswered \subseteq Transactions /\ outcome[t] \in Outcome
      /\ outcome \in [Transactions -> Outcome]
  BY DEF IInv, TypeOK
<1>2. CASE Signature[t] \in sigCache /\ Return(t, "sigUsed") /\ NotCached
  <2>1. stage' = [stage EXCEPT ![t] = "done"] /\ outcome' = [outcome EXCEPT ![t] = "sigUsed"]
    BY <1>2 DEF Return, Stage
  <2>2. "sigUsed" \in Outcome
    BY DEF Outcome
  <2>3. QED
    BY <1>1, <1>2, <2>1, <2>2, NotCachedKeeps, FutureKeeps
<1>3. CASE defect[t] = "early" /\ Return(t, "failed") /\ CacheResult(t, "failed")
  <2>1. stage' = [stage EXCEPT ![t] = "done"] /\ outcome' = [outcome EXCEPT ![t] = "failed"]
    BY <1>3 DEF Return, Stage
  <2>2. "failed" \in Outcome
    BY DEF Outcome
  <2>3. Founded(t)'
    BY <1>3 DEF FutureUnchanged, Founded
  <2>4. QED
    BY <1>1, <1>3, <2>1, <2>2, <2>3, CacheResultKeeps, FutureKeeps
<1>4. CASE Signature[t] \notin sigCache /\ Stage(t, "proof") /\ NotCached /\ UNCHANGED outcome
  <2>1. stage' = [stage EXCEPT ![t] = "proof"] /\ outcome' = [outcome EXCEPT ![t] = outcome[t]]
    BY <1>1, <1>4 DEF Stage
  <2>2. QED
    BY <1>1, <1>4, <2>1, NotCachedKeeps, FutureKeeps
<1>5. QED
  BY <1>2, <1>3, <1>4 DEF OwnPart

LEMMA StopKeeps == ASSUME IInv, Stop PROVE IInv'
BY DEF IInv, TypeOK, PageInv, ActiveInv, Active, ProofInv, PairInv, AcceptedInv,
       CursorBehindChecks, AcceptedIsSound, FailureIsFounded, Stop, process, history

\* Every step of a future keeps the invariant.
LEMMA FutureStepKeeps == ASSUME IInv, NEW t \in batch, FutureStep(t) PROVE IInv'
<1>1. t \in Transactions /\ unanswered \subseteq Transactions /\ outcome[t] \in Outcome
      /\ outcome \in [Transactions -> Outcome]
  BY DEF IInv, TypeOK
<1>2. ASSUME NEW r \in Outcome \ {"none", "ok", "failed"}, pc = "check", FutureUnchanged,
             Return(t, r), NotCached, UNCHANGED unanswered
      PROVE  IInv'
  <2>1. stage' = [stage EXCEPT ![t] = "done"] /\ outcome' = [outcome EXCEPT ![t] = r]
    BY <1>2 DEF Return, Stage
  <2>2. QED
    BY <1>1, <1>2, <2>1, NotCachedKeeps, FutureKeeps
<1>3. ASSUME NEW r \in {"ok", "failed"}, pc = "check", FutureUnchanged,
             Return(t, r), CacheResult(t, r),
             unanswered \subseteq unanswered', unanswered' \subseteq Transactions,
             r = "ok" => Sound(t), r = "failed" => Founded(t)'
      PROVE  IInv'
  <2>1. stage' = [stage EXCEPT ![t] = "done"] /\ outcome' = [outcome EXCEPT ![t] = r]
    BY <1>3 DEF Return, Stage
  <2>2. r \in Outcome
    BY DEF Outcome
  <2>3. QED
    BY <1>1, <1>3, <2>1, <2>2, CacheResultKeeps, FutureKeeps
<1>4. CASE FirstPoll(t)
  <2>1. pc = "check" /\ FutureUnchanged /\ UNCHANGED unanswered
    BY <1>4 DEF FirstPoll
  <2>2. CASE Pointer[t] = 0 /\ OwnPart(t)
    BY <2>1, <2>2, OwnPartKeeps
  <2>3. CASE Return(t, "pointerFailed") /\ NotCached
    BY <1>2, <2>1, <2>3 DEF Outcome
  <2>4. CASE Stage(t, "pointer") /\ NotCached /\ UNCHANGED outcome
    <3>1. stage' = [stage EXCEPT ![t] = "pointer"] /\ outcome' = [outcome EXCEPT ![t] = outcome[t]]
      BY <1>1, <2>4 DEF Stage
    <3>2. QED
      BY <1>1, <2>1, <2>4, <3>1, NotCachedKeeps, FutureKeeps
  <2>5. QED
    BY <1>4, <2>2, <2>3, <2>4 DEF FirstPoll
<1>5. CASE FirstPollPanics(t)
  BY <1>5, StopKeeps DEF FirstPollPanics
<1>6. CASE PointerProved(t)
  BY <1>6, OwnPartKeeps DEF PointerProved, Resumes
<1>7. CASE PointerFails(t)
  BY <1>2, <1>7 DEF PointerFails, Resumes, Outcome
<1>8. CASE PointerUnread(t)
  BY <1>2, <1>8 DEF PointerUnread, Resumes, Outcome
<1>9. CASE Proved(t)
  <2>1. Sound(t)
    BY <1>1, <1>9 DEF Proved, Resumes, IInv, ProofInv, Sound
  <2>2. QED
    BY <1>1, <1>3, <1>9, <2>1 DEF Proved, Resumes
<1>10. CASE Refuted(t)
  <2>1. Founded(t)'
    BY <1>1, <1>10 DEF Refuted, FutureUnchanged, IInv, PairInv, Founded
  <2>2. QED
    BY <1>1, <1>3, <1>10, <2>1 DEF Refuted, Resumes
<1>11. CASE NoAnswer(t)
  <2>1. Founded(t)'
    BY <1>11 DEF NoAnswer, Founded
  <2>2. QED
    BY <1>1, <1>3, <1>11, <2>1 DEF NoAnswer, Resumes
<1>12. QED
  BY <1>4, <1>5, <1>6, <1>7, <1>8, <1>9, <1>10, <1>11 DEF FutureStep

-------------------------------------------------------------------------------
(* The loop and its requests *)

LEMMA StartKeeps == ASSUME IInv, NEW resync \in BOOLEAN, Start(resync) PROVE IInv'
<1>1. submitted \in 0 .. N /\ N \in Nat /\ MaxStarts \in Nat /\ starts \in 0 .. MaxStarts
  BY NumberAssumption DEF IInv, TypeOK
<1>2. endCursor' \in 0 .. N /\ bootCursor' = endCursor' /\ starts' \in 0 .. MaxStarts
  BY <1>1 DEF Start
<1>3. TypeOK'
  <2>1. /\ proofs' \in [Transactions -> 0 .. N]
        /\ fetched' \in [Transactions -> {"no", "bare", "full"}]
        /\ stage' \in [Transactions -> {"idle", "queued", "pointer", "proof", "done"}]
        /\ txCache' \in [Transactions -> {"none", "ok", "failed"}]
        /\ outcome' \in [Transactions -> Outcome]
    BY <1>1 DEF Start, Every, Outcome
  <2>2. QED
    BY <1>2, <2>1 DEF Start, IInv, TypeOK
<1>4. PageInv' /\ ActiveInv' /\ ProofInv' /\ PairInv' /\ AcceptedInv'
  BY DEF Start, Every, PageInv, ActiveInv, Active, ProofInv, PairInv, AcceptedInv
<1>5. CursorBehindChecks'
  BY <1>2 DEF CursorBehindChecks, Transactions
<1>6. AcceptedIsSound' /\ FailureIsFounded'
  BY DEF Start, Every, AcceptedIsSound, FailureIsFounded
<1>7. QED
  BY <1>3, <1>4, <1>5, <1>6 DEF IInv

\* The new page lies between the old cursor and the new one.
LEMMA FetchPageKeeps == ASSUME IInv, FetchPage PROVE IInv'
<1>1. /\ endCursor \in 0 .. N /\ submitted \in 0 .. N /\ N \in Nat
      /\ PageSize \in Nat \ {0} /\ endCursor < submitted
  BY NumberAssumption DEF IInv, TypeOK, FetchPage
<1>2. PageEnd \in 0 .. N /\ endCursor < PageEnd
  BY <1>1 DEF PageEnd
<1>3. batch' \subseteq Transactions /\ endCursor' = PageEnd
  BY <1>1, <1>2 DEF FetchPage, Transactions
<1>4. TypeOK'
  BY <1>2, <1>3 DEF FetchPage, IInv, TypeOK, history
<1>5. \A t \in batch' : t <= endCursor' /\ outcome'[t] = "none"
  BY <1>1, <1>2, <1>3 DEF FetchPage, IInv, PageInv, history, TypeOK, Outcome
<1>6. PageInv'
  <2>1. \A t \in Transactions : outcome'[t] # "none" => t <= endCursor'
    BY <1>1, <1>2, <1>3 DEF FetchPage, IInv, PageInv, history, Transactions
  <2>2. QED
    BY <1>5, <2>1 DEF FetchPage, PageInv
<1>7. ActiveInv' /\ ProofInv'
  BY DEF FetchPage, IInv, PageInv, ActiveInv, Active, ProofInv
<1>8. CursorBehindChecks'
  <2>1. bootCursor \in 0 .. N
    BY DEF IInv, TypeOK
  <2>2. QED
    BY <1>1, <1>2, <1>3, <2>1 DEF FetchPage, IInv, PageInv, CursorBehindChecks, history,
                                  Transactions
<1>9. PairInv' /\ AcceptedInv' /\ AcceptedIsSound' /\ FailureIsFounded'
  BY DEF FetchPage, IInv, PairInv, AcceptedInv, AcceptedIsSound, FailureIsFounded, history
<1>10. QED
  BY <1>4, <1>6, <1>7, <1>8, <1>9 DEF IInv

\* Answers are about what was asked for.
LEMMA AnswersAreOf ==
    ASSUME NEW S, NEW o \in Answers(S)
    PROVE  InAnswer(o) \subseteq S
BY DEF Answers, InAnswer

\* What BulkLoaded does when the publications are answered in the order o, and their
\* timestamp proofs but for those of A are missing.
LoadedWith(o, A) ==
    LET p == Zip(o, A) IN
    /\ PairsMatch(p)
    /\ proofs' = [t \in Transactions |-> IF t \in DOMAIN p THEN p[t] ELSE proofs[t]]
    /\ stage' = [t \in Transactions |-> IF t \in DOMAIN p THEN "queued" ELSE "idle"]
    /\ outcome' = [t \in Transactions |->
                      IF t \in batch \ DOMAIN p THEN "listed" ELSE outcome[t]]
    /\ pc' \in {"pointers", "check"}

LEMMA BulkLoadedKeeps == ASSUME IInv, BulkLoaded PROVE IInv'
<1>0. PICK o \in Answers(batch) : \E A \in SUBSET InAnswer(o) : LoadedWith(o, A)
  BY DEF BulkLoaded, LoadedWith
<1>1. PICK A \in SUBSET InAnswer(o) : LoadedWith(o, A)
  BY <1>0
<1> DEFINE D == DOMAIN Zip(o, A)
<1>2. D \subseteq batch
  BY AnswersAreOf DEF Zip
<1>3. \A t \in Transactions : proofs'[t] \in {0, t} /\ (t \notin D => proofs'[t] = proofs[t])
  BY <1>1 DEF LoadedWith, PairsMatch, IInv, PairInv
<1>4. \A t \in Transactions : stage'[t] = IF t \in D THEN "queued" ELSE "idle"
  BY <1>1 DEF LoadedWith
<1>5. \A t \in Transactions : outcome'[t] = IF t \in batch \ D THEN "listed" ELSE outcome[t]
  BY <1>1 DEF LoadedWith
<1>6. pc = "bulk" /\ pc' \in {"pointers", "check"}
  BY <1>1 DEF BulkLoaded, LoadedWith
<1>7. UNCHANGED <<defect, submitted, endCursor, batch, txCache, sigCache, unanswered,
                  bootCursor, starts>> /\ fetched' = Every("no")
  BY DEF BulkLoaded
<1>8. batch \subseteq Transactions /\ \A t \in batch : outcome[t] = "none"
  BY <1>6 DEF IInv, TypeOK, PageInv
<1> HIDE DEF D
<1>9. TypeOK'
  <2>1. proofs' \in [Transactions -> 0 .. N]
    BY <1>1, <1>3, NumberAssumption DEF LoadedWith, Transactions
  <2>2. stage' \in [Transactions -> {"idle", "queued", "pointer", "proof", "done"}]
    BY <1>1 DEF LoadedWith
  <2>3. outcome' \in [Transactions -> Outcome]
    BY <1>1 DEF LoadedWith, IInv, TypeOK, Outcome
  <2>4. fetched' \in [Transactions -> {"no", "bare", "full"}]
    BY <1>7 DEF Every
  <2>5. QED
    BY <1>6, <1>7, <2>1, <2>2, <2>3, <2>4 DEF IInv, TypeOK
<1>10. PageInv'
  BY <1>2, <1>4, <1>5, <1>6, <1>7, <1>8 DEF IInv, PageInv
<1>11. ActiveInv' /\ ProofInv'
  BY <1>2, <1>4, <1>6, <1>7 DEF ActiveInv, Active, ProofInv
<1>12. PairInv'
  BY <1>3 DEF PairInv
<1>13. AcceptedInv' /\ AcceptedIsSound'
  BY <1>5, <1>7 DEF IInv, AcceptedInv, AcceptedIsSound
<1>14. CursorBehindChecks'
  BY <1>5, <1>6, <1>7 DEF IInv, CursorBehindChecks
<1>15. FailureIsFounded'
  BY <1>2, <1>3, <1>5, <1>7, <1>8 DEF IInv, FailureIsFounded
<1>16. QED
  BY <1>9, <1>10, <1>11, <1>12, <1>13, <1>14, <1>15 DEF IInv

LEMMA PointersLoadedKeeps == ASSUME IInv, PointersLoaded PROVE IInv'
<1>1. fetched' \in [Transactions -> {"no", "bare", "full"}]
  BY DEF PointersLoaded
<1>2. pc = "pointers" /\ pc' = "check"
      /\ UNCHANGED <<defect, submitted, endCursor, batch, proofs, stage, txCache, sigCache,
                     history>>
  BY DEF PointersLoaded
<1>3. QED
  BY <1>1, <1>2 DEF IInv, TypeOK, PageInv, ActiveInv, Active, ProofInv, PairInv, AcceptedInv,
                    CursorBehindChecks, AcceptedIsSound, FailureIsFounded, history

LEMMA EndBatchKeeps == ASSUME IInv, EndBatch PROVE IInv'
<1>1. /\ pc = "check" /\ pc' = "fetch" /\ batch' = {}
      /\ \A t \in batch : stage[t] \in {"idle", "done"}
      /\ UNCHANGED <<defect, submitted, endCursor, proofs, fetched, stage, txCache, sigCache,
                     history>>
  BY DEF EndBatch
<1>2. \A t \in batch : outcome[t] # "none"
  BY <1>1 DEF IInv, PageInv
<1>3. \A t \in Transactions : ~Active(t)
  BY <1>1 DEF IInv, ActiveInv, Active
<1>4. ActiveInv' /\ ProofInv'
  BY <1>1, <1>3 DEF ActiveInv, Active, ProofInv
<1>5. TypeOK' /\ PageInv' /\ CursorBehindChecks'
  BY <1>1, <1>2 DEF IInv, TypeOK, PageInv, CursorBehindChecks, history
<1>6. PairInv' /\ AcceptedInv' /\ AcceptedIsSound' /\ FailureIsFounded'
  BY <1>1 DEF IInv, PairInv, AcceptedInv, AcceptedIsSound, FailureIsFounded, history
<1>7. QED
  BY <1>4, <1>5, <1>6 DEF IInv

LEMMA VerifierInvariant == Spec => []IInv
<1>1. Init => IInv
  <2> SUFFICES ASSUME Init PROVE IInv
    OBVIOUS
  <2>1. TypeOK
    BY NumberAssumption DEF Init, TypeOK, Every, Outcome
  <2>2. QED
    BY <2>1 DEF Init, Every, IInv, PageInv, ActiveInv, Active, ProofInv, PairInv, AcceptedInv,
                CursorBehindChecks, AcceptedIsSound, FailureIsFounded
<1>2. IInv /\ [Next]_vars => IInv'
  <2> SUFFICES ASSUME IInv, [Next]_vars PROVE IInv'
    OBVIOUS
  <2>1. CASE Submit
    <3>1. submitted' \in 0 .. N
      BY <2>1, NumberAssumption DEF Submit, IInv, TypeOK
    <3>2. UNCHANGED <<defect, pc, process, history>>
      BY <2>1 DEF Submit
    <3>3. QED
      BY <3>1, <3>2 DEF IInv, TypeOK, PageInv, ActiveInv, Active, ProofInv, PairInv, AcceptedInv,
                        CursorBehindChecks, AcceptedIsSound, FailureIsFounded, process, history
  <2>2. CASE \E resync \in BOOLEAN : Start(resync)
    BY <2>2, StartKeeps
  <2>3. CASE FetchPage
    BY <2>3, FetchPageKeeps
  <2>4. CASE BulkLoaded \/ PointersLoaded
    BY <2>4, BulkLoadedKeeps, PointersLoadedKeeps
  <2>5. CASE BulkFails \/ BulkPanics
    BY <2>5, StopKeeps DEF BulkFails, BulkPanics
  <2>6. CASE \E t \in batch : FutureStep(t)
    BY <2>6, FutureStepKeeps
  <2>7. CASE EndBatch
    BY <2>7, EndBatchKeeps
  <2>8. CASE UNCHANGED vars
    BY <2>8 DEF vars, IInv, TypeOK, PageInv, ActiveInv, Active, ProofInv, PairInv, AcceptedInv,
                CursorBehindChecks, AcceptedIsSound, FailureIsFounded, process, history
  <2>9. QED
    BY <2>1, <2>2, <2>3, <2>4, <2>5, <2>6, <2>7, <2>8 DEF Next
<1>3. QED
  BY <1>1, <1>2, PTL DEF Spec

-------------------------------------------------------------------------------
(* The caches and the results *)

Checked == {t \in Transactions : outcome[t] \in {"ok", "failed"}}

\* The caches hold the results of this run and nothing else: a future under way has no
\* result yet, and a signature is in the cache for a publication that has one.
CachesAgree ==
    /\ \A t \in Transactions : Active(t) => outcome[t] = "none"
    /\ \A t \in Transactions :
          txCache[t] = IF outcome[t] \in {"ok", "failed"} THEN outcome[t] ELSE "none"
    /\ \A t \in Checked : Signature[t] \in sigCache
    /\ \A s \in sigCache : \E t \in Checked : Signature[t] = s

SigUsedInv ==
    \A t \in Transactions : outcome[t] = "sigUsed" =>
        \E u \in Checked : u # t /\ Signature[u] = Signature[t]

\* A future that is under way goes on to stage s, or returns r and caches it.
GoesOn(t, s) == stage' = [stage EXCEPT ![t] = s] /\ outcome' = outcome /\ NotCached

Returns(t, r) ==
    /\ stage' = [stage EXCEPT ![t] = "done"] /\ outcome' = [outcome EXCEPT ![t] = r]
    /\ \/ r \in {"ok", "failed"} /\ CacheResult(t, r)
       \/ r \in {"pointerFailed", "unread"} /\ NotCached
       \/ r = "sigUsed" /\ NotCached /\ Signature[t] \in sigCache

\* What a step of a future is, as far as the results and the caches go.
LEMMA FutureMoves ==
    ASSUME NEW t \in batch, FutureStep(t)
    PROVE  \/ Stop
           \/ Active(t) /\ pc = "check" /\ starts' = starts /\ defect' = defect
              /\ ((\E s \in {"pointer", "proof"} : GoesOn(t, s)) \/ \E r : Returns(t, r))
<1> DEFINE Moves == (\E s \in {"pointer", "proof"} : GoesOn(t, s)) \/ \E r : Returns(t, r)
<1>1. ASSUME NEW r, Return(t, r),
             \/ r \in {"ok", "failed"} /\ CacheResult(t, r)
             \/ r \in {"pointerFailed", "unread"} /\ NotCached
             \/ r = "sigUsed" /\ NotCached /\ Signature[t] \in sigCache
      PROVE  Moves
  <2>1. Returns(t, r)
    BY <1>1 DEF Return, Stage, Returns
  <2>2. QED
    BY <2>1
<1>2. ASSUME OwnPart(t) PROVE Moves
  <2>1. CASE Stage(t, "proof") /\ NotCached /\ UNCHANGED outcome
    <3>1. GoesOn(t, "proof")
      BY <2>1 DEF Stage, GoesOn
    <3>2. QED
      BY <3>1
  <2>2. QED
    BY <1>1, <1>2, <2>1 DEF OwnPart
<1>3. CASE FirstPoll(t)
  <2>1. ASSUME Stage(t, "pointer"), NotCached, UNCHANGED outcome PROVE Moves
    <3>1. GoesOn(t, "pointer")
      BY <2>1 DEF Stage, GoesOn
    <3>2. QED
      BY <3>1
  <2>2. Moves
    <3>1. CASE OwnPart(t)
      BY <1>2, <3>1
    <3>2. CASE Return(t, "pointerFailed") /\ NotCached
      BY <1>1, <3>2
    <3>3. QED
      BY <1>3, <2>1, <3>1, <3>2 DEF FirstPoll
  <2>3. QED
    BY <1>3, <2>2 DEF FirstPoll, FutureUnchanged, Active
<1>4. CASE FirstPollPanics(t)
  BY <1>4 DEF FirstPollPanics
<1>5. CASE PointerProved(t)
  BY <1>2, <1>5 DEF PointerProved, Resumes, FutureUnchanged, Active
<1>6. CASE PointerFails(t) \/ PointerUnread(t)
  BY <1>1, <1>6 DEF PointerFails, PointerUnread, Resumes, FutureUnchanged, Active
<1>7. CASE Proved(t) \/ Refuted(t) \/ NoAnswer(t)
  BY <1>1, <1>7 DEF Proved, Refuted, NoAnswer, Resumes, FutureUnchanged, Active
<1>8. QED
  BY <1>3, <1>4, <1>5, <1>6, <1>7 DEF FutureStep

LEMMA FutureKeepsCaches ==
    ASSUME IInv, CachesAgree, SigUsedInv, NEW t \in batch, Active(t),
           (\E s \in {"pointer", "proof"} : GoesOn(t, s)) \/ \E r : Returns(t, r)
    PROVE  CachesAgree' /\ SigUsedInv'
<1>1. /\ t \in Transactions /\ outcome[t] = "none" /\ txCache[t] = "none"
      /\ stage \in [Transactions -> {"idle", "queued", "pointer", "proof", "done"}]
      /\ outcome \in [Transactions -> Outcome]
      /\ txCache \in [Transactions -> {"none", "ok", "failed"}]
  BY DEF IInv, TypeOK, CachesAgree
<1>2. ASSUME NEW s \in {"pointer", "proof"}, GoesOn(t, s)
      PROVE  CachesAgree' /\ SigUsedInv'
  <2>1. \A u \in Transactions : Active(u)' => Active(u)
    BY <1>1, <1>2 DEF GoesOn, Active
  <2>2. QED
    BY <1>2, <2>1 DEF GoesOn, NotCached, CachesAgree, SigUsedInv, Checked
<1>3. ASSUME NEW r, Returns(t, r)
      PROVE  CachesAgree' /\ SigUsedInv'
  <2>1. /\ outcome'[t] = r /\ stage'[t] = "done"
        /\ \A u \in Transactions \ {t} : outcome'[u] = outcome[u] /\ stage'[u] = stage[u]
    BY <1>1, <1>3 DEF Returns
  <2>2. \A u \in Transactions : Active(u)' => u # t /\ Active(u)
    BY <2>1 DEF Active
  <2>3. CASE r \in {"ok", "failed"} /\ CacheResult(t, r)
    <3>1. /\ txCache'[t] = r /\ \A u \in Transactions \ {t} : txCache'[u] = txCache[u]
          /\ sigCache' = sigCache \cup {Signature[t]}
      BY <1>1, <2>3 DEF CacheResult
    <3>2. Checked' = Checked \cup {t}
      BY <1>1, <2>1, <2>3 DEF Checked
    <3>3. CachesAgree'
      <4>1. \A u \in Transactions : Active(u)' => outcome'[u] = "none"
        BY <2>1, <2>2 DEF CachesAgree
      <4>2. \A u \in Transactions :
                txCache'[u] = IF outcome'[u] \in {"ok", "failed"} THEN outcome'[u] ELSE "none"
        BY <2>1, <2>3, <3>1 DEF CachesAgree
      <4>3. /\ \A u \in Checked' : Signature[u] \in sigCache'
            /\ \A s \in sigCache' : \E u \in Checked' : Signature[u] = s
        BY <3>1, <3>2 DEF CachesAgree
      <4>4. QED
        BY <4>1, <4>2, <4>3 DEF CachesAgree
    <3>4. SigUsedInv'
      BY <2>1, <2>3, <3>2 DEF SigUsedInv
    <3>5. QED
      BY <3>3, <3>4
  <2>4. CASE r \in {"pointerFailed", "unread", "sigUsed"} /\ NotCached
    <3>1. txCache' = txCache /\ sigCache' = sigCache
      BY <2>4 DEF NotCached
    <3>2. Checked' = Checked /\ t \notin Checked
      BY <1>1, <2>1, <2>4 DEF Checked
    <3>3. CachesAgree'
      BY <1>1, <2>1, <2>2, <2>4, <3>1, <3>2 DEF CachesAgree
    <3>4. r = "sigUsed" => Signature[t] \in sigCache
      BY <1>3, <2>4 DEF Returns
    <3>5. r = "sigUsed" => \E u \in Checked : u # t /\ Signature[u] = Signature[t]
      BY <3>2, <3>4 DEF CachesAgree
    <3>6. SigUsedInv'
      BY <2>1, <3>2, <3>5 DEF SigUsedInv
    <3>7. QED
      BY <3>3, <3>6
  <2>5. QED
    BY <1>3, <2>3, <2>4 DEF Returns
<1>4. QED
  BY <1>2, <1>3

-------------------------------------------------------------------------------
(* The results *)

\* The loop, its requests, its futures and its caches keep their types (main.rs,
\* bundlr/api.rs, verifier/proof.rs, cache.rs).
THEOREM RustTypeCorrect == Spec => []TypeOK
<1>1. IInv => TypeOK
  BY DEF IInv
<1>2. QED
  BY <1>1, VerifierInvariant, PTL

\* Nothing behind the cursor, which main.rs:200 moves before the page is checked, is
\* without a result but the page at hand.
THEOREM RustCursorSafe == Spec => []CursorBehindChecks
<1>1. IInv => CursorBehindChecks
  BY DEF IInv
<1>2. QED
  BY <1>1, VerifierInvariant, PTL

\* What the futures of proof.rs:537-589 accept has no defect, and neither has its
\* pointer, whatever the bulk requests leave out and in whatever order they answer.
THEOREM RustAcceptanceSound == Spec => []AcceptedIsSound
<1>1. IInv => AcceptedIsSound
  BY DEF IInv
<1>2. QED
  BY <1>1, VerifierInvariant, PTL

\* A signature that was accepted on an earlier page is never accepted again: it was
\* looked up (proof.rs:568) after that page had cached it.
THEOREM RustSignatureOncePerPage == Spec => SignatureAcceptedOncePerPage
<1> DEFINE Fresh ==
      \A t \in batch : outcome'[t] = "ok" /\ outcome[t] # "ok" =>
          \A u \in Transactions \ batch : Signature[u] = Signature[t] => outcome[u] # "ok"
<1>1. IInv /\ [Next]_vars => [Fresh]_vars
  <2> SUFFICES ASSUME IInv, Next, NEW t \in batch, outcome'[t] = "ok", outcome[t] # "ok"
               PROVE  \A u \in Transactions \ batch : Signature[u] = Signature[t] => outcome[u] # "ok"
    BY DEF vars
  <2>1. t \in Transactions /\ outcome \in [Transactions -> Outcome]
    BY DEF IInv, TypeOK
  <2>2. CASE Submit \/ FetchPage \/ PointersLoaded \/ EndBatch
    BY <2>2 DEF Submit, FetchPage, PointersLoaded, EndBatch, history
  <2>3. CASE BulkFails \/ BulkPanics
    BY <2>3 DEF BulkFails, BulkPanics, Stop, history
  <2>4. CASE \E resync \in BOOLEAN : Start(resync)
    BY <2>1, <2>4 DEF Start, Every
  <2>5. CASE BulkLoaded
    BY <2>1, <2>5 DEF BulkLoaded
  <2>6. ASSUME NEW v \in batch, FutureStep(v)
        PROVE  stage[t] = "proof"
    <3>1. ASSUME NEW r \in Outcome, r # "ok", Return(v, r) PROVE FALSE
      BY <2>1, <3>1 DEF Return
    <3>2. ASSUME OwnPart(v) PROVE FALSE
      BY <3>1, <3>2 DEF OwnPart, Outcome
    <3>3. CASE FirstPoll(v) \/ PointerProved(v)
      BY <3>1, <3>2, <3>3 DEF FirstPoll, PointerProved, Outcome
    <3>4. CASE FirstPollPanics(v)
      BY <3>4 DEF FirstPollPanics, Stop, history
    <3>5. CASE PointerFails(v) \/ PointerUnread(v) \/ Refuted(v) \/ NoAnswer(v)
      BY <3>1, <3>5 DEF PointerFails, PointerUnread, Refuted, NoAnswer, Outcome
    <3>6. CASE Proved(v)
      BY <2>1, <3>6 DEF Proved, Resumes, Return
    <3>7. QED
      BY <2>6, <3>3, <3>4, <3>5, <3>6 DEF FutureStep
  <2>7. CASE stage[t] = "proof"
    BY <2>1, <2>7 DEF IInv, ProofInv
  <2>8. QED
    BY <2>2, <2>3, <2>4, <2>5, <2>6, <2>7 DEF Next
<1>2. QED
  BY <1>1, VerifierInvariant, PTL DEF Spec, SignatureAcceptedOncePerPage

LEMMA BulkLoadedKeepsCaches ==
    ASSUME IInv, CachesAgree, SigUsedInv, BulkLoaded
    PROVE  CachesAgree' /\ SigUsedInv'
<1>0. PICK o \in Answers(batch) : \E A \in SUBSET InAnswer(o) : LoadedWith(o, A)
  BY DEF BulkLoaded, LoadedWith
<1>1. PICK A \in SUBSET InAnswer(o) : LoadedWith(o, A)
  BY <1>0
<1> DEFINE D == DOMAIN Zip(o, A)
<1>2. D \subseteq batch
  BY AnswersAreOf DEF Zip
<1>3. \A t \in Transactions :
          /\ stage'[t] = IF t \in D THEN "queued" ELSE "idle"
          /\ outcome'[t] = IF t \in batch \ D THEN "listed" ELSE outcome[t]
  BY <1>1 DEF LoadedWith
<1>4. txCache' = txCache /\ sigCache' = sigCache /\ \A t \in batch : outcome[t] = "none"
  BY DEF BulkLoaded, IInv, PageInv
<1> HIDE DEF D
<1>5. Checked' = Checked
  BY <1>3, <1>4 DEF Checked
<1>6. CachesAgree'
  BY <1>2, <1>3, <1>4, <1>5 DEF CachesAgree, Active
<1>7. SigUsedInv'
  BY <1>3, <1>5 DEF SigUsedInv
<1>8. QED
  BY <1>6, <1>7

LEMMA CachesInvariant == Spec => [](CachesAgree /\ SigUsedInv)
<1>1. Init => CachesAgree /\ SigUsedInv
  BY DEF Init, Every, CachesAgree, SigUsedInv, Checked, Active
<1>2. IInv /\ CachesAgree /\ SigUsedInv /\ [Next]_vars => (CachesAgree /\ SigUsedInv)'
  <2> SUFFICES ASSUME IInv, CachesAgree, SigUsedInv, [Next]_vars
               PROVE  CachesAgree' /\ SigUsedInv'
    OBVIOUS
  <2>1. CASE UNCHANGED <<stage, outcome, txCache, sigCache>>
    BY <2>1 DEF CachesAgree, SigUsedInv, Checked, Active
  <2>2. CASE Stop
    BY <2>1, <2>2 DEF Stop, process, history
  <2>3. CASE Submit \/ FetchPage \/ PointersLoaded \/ EndBatch \/ UNCHANGED vars
    BY <2>1, <2>3 DEF Submit, FetchPage, PointersLoaded, EndBatch, vars, process, history
  <2>4. CASE BulkFails \/ BulkPanics
    BY <2>2, <2>4 DEF BulkFails, BulkPanics
  <2>5. CASE \E resync \in BOOLEAN : Start(resync)
    BY <2>5 DEF Start, Every, CachesAgree, SigUsedInv, Checked, Active
  <2>6. CASE BulkLoaded
    BY <2>6, BulkLoadedKeepsCaches
  <2>7. CASE \E t \in batch : FutureStep(t)
    BY <2>2, <2>7, FutureMoves, FutureKeepsCaches
  <2>8. QED
    BY <2>3, <2>4, <2>5, <2>6, <2>7 DEF Next
<1>3. QED
  BY <1>1, <1>2, VerifierInvariant, PTL DEF Spec

\* The timestamp proofs that api.rs:597-609 zips with the publications never make it
\* reject one for another's, and the signature that proof.rs:568 finds used is another
\* publication's.
THEOREM RustRejectionFounded == Spec => []RejectionIsFounded
<1>1. IInv /\ SigUsedInv => RejectionIsFounded
  BY DEF IInv, FailureIsFounded, SigUsedInv, Checked, RejectionIsFounded
<1>2. QED
  BY <1>1, VerifierInvariant, CachesInvariant, PTL

\* The two caches of cache.rs hold what the checks of this run came to, for every
\* publication and every signature that was checked, and nothing else.
ResultsAreCached ==
    /\ \A t \in Transactions :
          txCache[t] = IF outcome[t] \in {"ok", "failed"} THEN outcome[t] ELSE "none"
    /\ sigCache = {Signature[t] : t \in Checked}

\* The caches are the results: a cached success of the publication that is checked, which
\* process_proof passes over (proof.rs:537), cannot be there.
THEOREM RustResultsCached == Spec => []ResultsAreCached
<1>1. CachesAgree => ResultsAreCached
  BY DEF CachesAgree, ResultsAreCached
<1>2. QED
  BY <1>1, CachesInvariant, PTL

\* While the process runs, a publication gets one result: no answer that comes late and
\* no page replaces it.
OneResultPerRun ==
    [][starts' = starts =>
          \A t \in Transactions : outcome[t] # "none" => outcome'[t] = outcome[t]]_vars

\* No future of proof.rs:537-589 returns twice, and no page comes back to a publication
\* that has a result (main.rs:200).
THEOREM RustOneResult == Spec => OneResultPerRun
<1> DEFINE Kept == starts' = starts =>
                      \A t \in Transactions : outcome[t] # "none" => outcome'[t] = outcome[t]
<1>1. IInv /\ CachesAgree /\ [Next]_vars => [Kept]_vars
  <2> SUFFICES ASSUME IInv, CachesAgree, Next, starts' = starts,
                      NEW t \in Transactions, outcome[t] # "none"
               PROVE  outcome'[t] = outcome[t]
    BY DEF vars
  <2>1. CASE Submit \/ FetchPage \/ PointersLoaded \/ EndBatch \/ Stop
    BY <2>1 DEF Submit, FetchPage, PointersLoaded, EndBatch, Stop, history
  <2>2. CASE BulkFails \/ BulkPanics
    BY <2>1, <2>2 DEF BulkFails, BulkPanics
  <2>3. CASE \E resync \in BOOLEAN : Start(resync)
    BY <2>3 DEF Start, IInv, TypeOK
  <2>4. CASE BulkLoaded
    BY <2>4 DEF BulkLoaded, IInv, PageInv
  <2>5. CASE \E v \in batch : FutureStep(v)
    <3>1. PICK v \in batch : FutureStep(v)
      BY <2>5
    <3>2. v \in Transactions /\ outcome \in [Transactions -> Outcome]
      BY DEF IInv, TypeOK
    <3>3. CASE Active(v) /\ \E r : Returns(v, r)
      BY <3>2, <3>3 DEF CachesAgree, Returns
    <3>4. CASE \E s \in {"pointer", "proof"} : GoesOn(v, s)
      BY <3>4 DEF GoesOn
    <3>5. QED
      BY <2>1, <3>1, <3>3, <3>4, FutureMoves
  <2>6. QED
    BY <2>1, <2>2, <2>3, <2>4, <2>5 DEF Next
<1>2. QED
  BY <1>1, VerifierInvariant, CachesInvariant, PTL DEF Spec, OneResultPerRun

===============================================================================
