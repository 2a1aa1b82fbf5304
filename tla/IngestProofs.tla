------------------------------ MODULE IngestProofs ------------------------------
(***************************************************************************)
(* The safety of Ingest, for any number of publications with any defects,  *)
(* any sizes of pages and requests and any concurrency.                    *)
(***************************************************************************)
EXTENDS Ingest, FiniteSetTheorems, TLAPS

-------------------------------------------------------------------------------
(* The answers of Bundlr *)

\* An answer holds some of the ids of the request, and nothing else.
LEMMA AnswersAreIds ==
    ASSUME NEW S, NEW ids \in Seq(S), NEW a \in Answers(ids)
    PROVE  /\ a \in Seq(S)
           /\ DOMAIN a \subseteq DOMAIN ids
           /\ Answered(a) \subseteq Answered(ids)
<1>1. PICK n \in 0 .. Len(ids) : a \in [1 .. n -> {ids[i] : i \in DOMAIN ids}]
  BY DEF Answers
<1>2. {ids[i] : i \in DOMAIN ids} \subseteq S /\ Len(ids) \in Nat /\ DOMAIN ids = 1 .. Len(ids)
  OBVIOUS
<1>3. a \in [1 .. n -> S]
  BY <1>1, <1>2
<1>4. a \in Seq(S)
  BY <1>2, <1>3
<1>5. DOMAIN a \subseteq DOMAIN ids
  BY <1>1, <1>2
<1>6. Answered(a) \subseteq Answered(ids)
  BY <1>1 DEF Answered
<1>7. QED
  BY <1>4, <1>5, <1>6

\* A page is a sequence of publications that is not empty: those after the cursor, up to
\* the end of the page, that Bundlr lists.
LEMMA PagesHoldWhatIsListed ==
    ASSUME NEW cursor \in Nat, NEW ids \in Pages(cursor)
    PROVE  /\ ids \in Seq(Publications) /\ ids # <<>>
           /\ PageEnd(ids) \in Publications
           /\ Answered(ids) = {t \in Publications : cursor < t /\ t <= PageEnd(ids) /\ IsListed(t)}
<1>1. PICK n \in 1 .. PageSize : ids \in [1 .. n -> Publications]
  BY DEF Pages, Query
<1>2. n \in Nat \ {0}
  BY SizeAssumption
<1>3. ids \in Seq(Publications) /\ Len(ids) = n
  BY <1>1, <1>2
<1>4. ids # <<>> /\ ids[Len(ids)] \in Publications
  BY <1>1, <1>2, <1>3
<1>5. Answered(ids) = {t \in Publications : cursor < t /\ t <= ids[Len(ids)] /\ IsListed(t)}
  BY DEF Pages, Query
<1>6. QED
  BY <1>3, <1>4, <1>5 DEF PageEnd

\* The request for the timestamp proofs of a batch, and what its answer is about.
LEMMA ProofsAnswered ==
    ASSUME NEW ids \in Seq(Publications),
           NEW a \in Answers([i \in DOMAIN ids |-> TimestampTx(ids[i])])
    PROVE  /\ DOMAIN a \subseteq DOMAIN ids
           /\ \A i \in DOMAIN a : a[i] - N \in Publications
           /\ \A id \in Answered(a) : id \in Ids /\ id > N /\ id - N \in Publications
<1> DEFINE req == [i \in DOMAIN ids |-> TimestampTx(ids[i])]
<1>1. Len(ids) \in Nat /\ DOMAIN ids = 1 .. Len(ids) /\ N \in Nat
  BY SizeAssumption
<1>2. \A i \in DOMAIN ids : ids[i] \in Publications
  OBVIOUS
<1>3. \A i \in DOMAIN ids : TimestampTx(ids[i]) \in Ids /\ TimestampTx(ids[i]) > N
                            /\ TimestampTx(ids[i]) - N \in Publications
  BY <1>1, <1>2 DEF TimestampTx, Ids, Publications
<1> DEFINE S == {id \in Ids : id > N /\ id - N \in Publications}
<1>4. req \in [1 .. Len(ids) -> S]
  BY <1>1, <1>3
<1>5. req \in Seq(S) /\ DOMAIN req = DOMAIN ids
  BY <1>1, <1>4
<1>6. a \in Seq(S) /\ DOMAIN a \subseteq DOMAIN req /\ Answered(a) \subseteq Answered(req)
  BY <1>5, AnswersAreIds
<1>7. \A i \in DOMAIN a : a[i] \in S
  BY <1>6
<1>8. QED
  BY <1>5, <1>6, <1>7 DEF Answered

-------------------------------------------------------------------------------
(* Types *)

LEMMA PairsAreOfTheBatch ==
    ASSUME TypeOK, NEW a \in Answers([i \in DOMAIN batch |-> TimestampTx(batch[i])])
    PROVE  PairUp(a) \subseteq Pair
<1>1. batch \in Seq(Publications)
  BY DEF TypeOK
<1>2. \A i \in DOMAIN a : batch[i] \in Publications /\ a[i] - N \in Publications
  BY <1>1, ProofsAnswered
<1>3. QED
  BY <1>2 DEF PairUp, Pair

QueueTypes ==
    /\ failedQueue \in Seq(FailedProof) /\ delayed \in Seq(FailedProof)
    /\ writing \subseteq FailedProof /\ files \subseteq FailedProof /\ lost \subseteq FailedProof

HistoryTypes == accepted \subseteq Pair /\ failed \subseteq FailedProof

LEMMA QueueKeepsTypes ==
    ASSUME QueueTypes, \/ QueueStep \/ LoseQueue
                       \/ \E f \in FailedProof : Enqueue(f)
                       \/ UNCHANGED failedProofs
    PROVE  QueueTypes'
<1>1. CASE Dequeue
  <2>1. Head(failedQueue) \in FailedProof /\ Tail(failedQueue) \in Seq(FailedProof)
    BY <1>1 DEF Dequeue, QueueTypes
  <2>2. QED
    BY <1>1, <2>1 DEF Dequeue, QueueTypes
<1>2. CASE WriteFailedProof
  BY <1>2 DEF WriteFailedProof, QueueTypes
<1>3. CASE WriteFails
  <2>1. PICK f \in writing : delayed' = Append(delayed, f)
    BY <1>3 DEF WriteFails
  <2>2. QED
    BY <1>3, <2>1 DEF WriteFails, QueueTypes
<1>4. CASE DelayOver
  <2>1. Head(delayed) \in FailedProof /\ Tail(delayed) \in Seq(FailedProof)
    BY <1>4 DEF DelayOver, QueueTypes
  <2>2. QED
    BY <1>4, <2>1 DEF DelayOver, QueueTypes
<1>5. CASE LoseQueue
  <2>1. ElementsOf(failedQueue) \subseteq FailedProof /\ ElementsOf(delayed) \subseteq FailedProof
    BY DEF QueueTypes, ElementsOf
  <2>2. InMemory \subseteq FailedProof
    BY <2>1 DEF InMemory, QueueTypes
  <2>3. <<>> \in Seq(FailedProof)
    OBVIOUS
  <2>4. QED
    BY <1>5, <2>2, <2>3 DEF LoseQueue, QueueTypes
<1>6. CASE \E f \in FailedProof : Enqueue(f)
  <2>1. PICK f \in FailedProof : Enqueue(f)
    BY <1>6
  <2>2. QED
    BY <2>1 DEF Enqueue, QueueTypes
<1>7. CASE UNCHANGED failedProofs
  BY <1>7 DEF failedProofs, QueueTypes
<1>8. QED
  BY <1>1, <1>2, <1>3, <1>4, <1>5, <1>6, <1>7 DEF QueueStep

\* What is queued when a check ends is a failed proof of the publication that was checked.
LEMMA ConcludeEnqueues ==
    ASSUME NEW q \in Pair, NEW late \in BOOLEAN, Conclude(q, late)
    PROVE  \/ /\ Errors(q) = {} /\ ~late
              /\ accepted' = accepted \cup {q} /\ UNCHANGED <<failed, failedProofs>>
           \/ \E f \in FailedProof :
                 /\ f.txId = q.id /\ failed' = failed \cup {f}
                 /\ Enqueue(f) /\ UNCHANGED accepted
<1>1. CASE Errors(q) = {} /\ ~late
  BY <1>1 DEF Conclude
<1>2. CASE ~(Errors(q) = {} /\ ~late)
  <2> DEFINE R == IF late THEN {"UNKNOWN"} ELSE Errors(q)
  <2>1. R \subseteq Reason
    BY DEF Errors, Reason
  <2>2. PICK reason \in R :
            LET f == [txId |-> q.id, reason |-> reason] IN
            failed' = failed \cup {f} /\ Enqueue(f) /\ UNCHANGED accepted
    BY <1>2 DEF Conclude
  <2>3. [txId |-> q.id, reason |-> reason] \in FailedProof
    BY <2>1 DEF FailedProof, Pair
  <2>4. QED
    BY <2>2, <2>3
<1>3. QED
  BY <1>1, <1>2

LEMMA ConcludeKeepsTypes ==
    ASSUME TypeOK, NEW q \in Pair, NEW late \in BOOLEAN, Conclude(q, late)
    PROVE  QueueTypes' /\ HistoryTypes'
<1>1. QueueTypes /\ HistoryTypes
  BY DEF TypeOK, QueueTypes, HistoryTypes
<1>2. QueueTypes'
  BY <1>1, ConcludeEnqueues, QueueKeepsTypes
<1>3. HistoryTypes'
  BY <1>1, ConcludeEnqueues DEF HistoryTypes
<1>4. QED
  BY <1>2, <1>3

\* The rest of the node's variables.
NodeTypes ==
    /\ pc \in {"fetch", "publications", "proofs", "check", "save"}
    /\ endCursor \in 0 .. N /\ savedCursor \in 0 .. N /\ next \in 0 .. N
    /\ batch \in Seq(Publications)
    /\ waiting \subseteq Pair /\ inFlight \subseteq Pair /\ strays \subseteq Pair
    /\ metadata \in [{"da", "proofs"} -> [Ids -> 0 .. N]]
    /\ leftOut \subseteq Publications
    /\ bounds \in [spoiled : Nat, disturbances : Nat]

IndexerTypes ==
    /\ indexed \in 0 .. N /\ pageEnd \in 0 .. N /\ page \in Seq(Publications)
    /\ streamed \subseteq Publications /\ unread \subseteq Publications /\ nulls \in Nat

BoundsType(b) == b \in [spoiled : Nat, disturbances : Nat]

LEMMA BoundsKeepType ==
    ASSUME BoundsType(bounds)
    PROVE  /\ BoundsType(Spoil)
           /\ BoundsType([bounds EXCEPT !.disturbances = @ + 1])
           /\ \A s, late \in BOOLEAN : BoundsType(Count(s, late))
BY DEF BoundsType, Spoil, Count

LEMMA BatchKeepsTypes ==
    ASSUME TypeOK, BatchStep
    PROVE  NodeTypes' /\ UNCHANGED <<accepted, failed>>
<1> USE SizeAssumption
<1>0. NodeTypes /\ BoundsType(bounds) /\ <<>> \in Seq(Publications)
  BY DEF TypeOK, NodeTypes, BoundsType
<1>1. CASE FetchBatch
  <2>1. PICK ids \in Pages(endCursor), null \in {b \in BOOLEAN : b => MayDisturb} :
            /\ batch' = ids
            /\ next' = IF null THEN 0 ELSE PageEnd(ids)
            /\ bounds' = [bounds EXCEPT !.disturbances = IF null THEN @ + 1 ELSE @]
    BY <1>1 DEF FetchBatch
  <2>2. ids \in Seq(Publications) /\ PageEnd(ids) \in Publications
    BY <1>0, PagesHoldWhatIsListed DEF NodeTypes
  <2>3. next' \in 0 .. N
    BY <2>1, <2>2 DEF Publications
  <2>4. BoundsType(bounds')
    BY <1>0, <2>1 DEF BoundsType
  <2>5. QED
    BY <1>0, <1>1, <2>1, <2>2, <2>3, <2>4 DEF FetchBatch, NodeTypes, BoundsType
<1>2. CASE RequestFails
  BY <1>0, <1>2 DEF RequestFails, StartOver, NodeTypes
<1>3. CASE PublicationsLoaded
  <2>1. PICK a \in Answers(batch) :
            /\ metadata' = CachePublications(a)
            /\ IF \E i \in DOMAIN a : defect[a[i]] \in {"json", "receipt"}
               THEN StartOver /\ bounds' = Spoil
               ELSE /\ batch' = a
                    /\ leftOut' = leftOut \cup (Answered(batch) \ Answered(a))
                    /\ pc' = "proofs"
                    /\ UNCHANGED <<endCursor, savedCursor, next, waiting, inFlight, strays,
                                   accepted, failed, bounds>>
    BY <1>3 DEF PublicationsLoaded
  <2>2. a \in Seq(Publications) /\ Answered(batch) \subseteq Publications
        /\ Answered(a) \subseteq Publications
    BY <1>0, AnswersAreIds DEF NodeTypes, Answered
  <2>3. CachePublications(a) \in [{"da", "proofs"} -> [Ids -> 0 .. N]]
    <3>1. [id \in Ids |-> IF id \in Answered(a) /\ defect[id] # "json" THEN id
                          ELSE metadata.da[id]] \in [Ids -> 0 .. N]
      BY <1>0, <2>2 DEF NodeTypes, Publications
    <3>2. QED
      BY <1>0, <3>1 DEF CachePublications, NodeTypes
  <2>4. BoundsType(Spoil)
    BY <1>0, BoundsKeepType
  <2>5. CASE \E i \in DOMAIN a : defect[a[i]] \in {"json", "receipt"}
    <3>1. StartOver /\ bounds' = Spoil /\ metadata' = CachePublications(a)
      BY <2>1, <2>5
    <3>2. QED
      BY <1>0, <2>3, <2>4, <3>1 DEF StartOver, NodeTypes, BoundsType
  <2>6. CASE ~\E i \in DOMAIN a : defect[a[i]] \in {"json", "receipt"}
    <3>1. leftOut' = leftOut \cup (Answered(batch) \ Answered(a)) /\ batch' = a
          /\ pc' = "proofs" /\ metadata' = CachePublications(a)
          /\ UNCHANGED <<endCursor, savedCursor, next, waiting, inFlight, strays,
                         accepted, failed, bounds>>
      BY <2>1, <2>6
    <3>2. QED
      BY <1>0, <2>2, <2>3, <3>1 DEF NodeTypes
  <2>7. QED
    BY <2>5, <2>6
<1>4. CASE ProofsLoaded
  <2> DEFINE ok == {t \in Publications : defect[t] # "proofs"}
             R == Answers([i \in DOMAIN batch |-> TimestampTx(batch[i])])
  <2>1. PICK a \in R :
            /\ metadata' = CacheProofs(a, ok)
            /\ IF \E i \in DOMAIN a : a[i] - N \notin ok
               THEN pc' = "fetch" /\ next' = 0 /\ bounds' = Spoil /\ UNCHANGED <<waiting, leftOut>>
               ELSE /\ waiting' = PairUp(a)
                    /\ leftOut' = leftOut \cup {batch[i] : i \in DOMAIN batch \ DOMAIN a}
                    /\ pc' = "check" /\ UNCHANGED <<next, bounds>>
    BY <1>4 DEF ProofsLoaded
  <2>2. PairUp(a) \subseteq Pair
    BY PairsAreOfTheBatch
  <2>3. \A id \in Answered(a) : id - N \in Publications
    BY <1>0, ProofsAnswered DEF NodeTypes
  <2>4. CacheProofs(a, ok) \in [{"da", "proofs"} -> [Ids -> 0 .. N]]
    <3>1. [id \in Ids |-> IF id \in Answered(a) /\ id - N \in ok THEN id - N
                          ELSE metadata.proofs[id]] \in [Ids -> 0 .. N]
      BY <1>0, <2>3 DEF NodeTypes, Publications
    <3>2. QED
      BY <1>0, <3>1 DEF CacheProofs, NodeTypes
  <2>5. {batch[i] : i \in DOMAIN batch \ DOMAIN a} \subseteq Publications
    BY <1>0 DEF NodeTypes
  <2>6. BoundsType(Spoil)
    BY <1>0, BoundsKeepType
  <2>7. batch' = <<>> /\ UNCHANGED <<endCursor, savedCursor, inFlight, strays, accepted, failed>>
    BY <1>4 DEF ProofsLoaded
  <2> HIDE DEF R, ok
  <2>8. QED
    BY <1>0, <2>1, <2>2, <2>4, <2>5, <2>6, <2>7 DEF NodeTypes, BoundsType
<1>5. CASE \E q \in waiting : StartCheck(q)
  BY <1>0, <1>5 DEF StartCheck, NodeTypes
<1>6. CASE BatchChecked
  BY <1>0, <1>6 DEF BatchChecked, NodeTypes
<1>7. CASE SaveCursor
  BY <1>0, <1>7 DEF SaveCursor, NodeTypes
<1>8. QED
  BY <1>1, <1>2, <1>3, <1>4, <1>5, <1>6, <1>7 DEF BatchStep


LEMMA CheckKeepsTypes ==
    ASSUME TypeOK, CheckEnds
    PROVE  NodeTypes' /\ QueueTypes' /\ HistoryTypes'
<1>0. NodeTypes /\ BoundsType(bounds) /\ 0 \in 0 .. N
  BY SizeAssumption DEF TypeOK, NodeTypes, BoundsType
<1>1. PICK q \in inFlight \cup strays, late \in BOOLEAN : FinishCheck(q, late) \/ FinishStray(q, late)
  BY DEF CheckEnds
<1>2. q \in Pair
  BY <1>0 DEF NodeTypes
<1>3. QueueTypes' /\ HistoryTypes'
  BY <1>1, <1>2, ConcludeKeepsTypes DEF FinishCheck, FinishStray
<1>4. \A s \in BOOLEAN : BoundsType(Count(s, late))
  BY <1>0, BoundsKeepType
<1>5. CASE FinishCheck(q, late)
  <2>1. (defect[q.id] = "event") \in BOOLEAN
    OBVIOUS
  <2>2. BoundsType(bounds')
    BY <1>4, <1>5, <2>1 DEF FinishCheck
  <2>3. QED
    BY <1>0, <1>3, <1>5, <2>2 DEF FinishCheck, NodeTypes, BoundsType
<1>6. CASE FinishStray(q, late)
  <2>1. BoundsType(bounds')
    BY <1>4, <1>6 DEF FinishStray
  <2>2. QED
    BY <1>0, <1>3, <1>6, <2>1 DEF FinishStray, NodeTypes, BoundsType
<1>7. QED
  BY <1>1, <1>5, <1>6

LEMMA RestartKeepsTypes ==
    ASSUME TypeOK, Restart
    PROVE  NodeTypes' /\ QueueTypes' /\ UNCHANGED <<accepted, failed>>
<1>1. NodeTypes /\ BoundsType(bounds) /\ QueueTypes /\ <<>> \in Seq(Publications) /\ 0 \in 0 .. N
  BY SizeAssumption DEF TypeOK, NodeTypes, BoundsType, QueueTypes
<1>2. BoundsType(bounds')
  BY <1>1, BoundsKeepType DEF Restart
<1>3. QueueTypes'
  BY <1>1, QueueKeepsTypes DEF Restart
<1>4. QED
  BY <1>1, <1>2, <1>3 DEF Restart, GetLastEndCursor, NodeTypes, BoundsType

LEMMA IndexerKeepsTypes ==
    ASSUME TypeOK, IndexerNext
    PROVE  IndexerTypes'
<1>0. IndexerTypes /\ <<>> \in Seq(Publications) /\ 0 \in 0 .. N
  BY SizeAssumption DEF TypeOK, IndexerTypes
<1>1. CASE IndexerFetch
  <2>1. PICK ids \in Pages(indexed) : \E end \in EndCursors(PageEnd(ids)) :
            /\ page' = ids
            /\ pageEnd' = end
            /\ nulls' = IF end = 0 THEN nulls + 1 ELSE nulls
    BY <1>1 DEF IndexerFetch
  <2>2. ids \in Seq(Publications) /\ PageEnd(ids) \in 0 .. N
    BY <1>0, PagesHoldWhatIsListed DEF IndexerTypes, Publications
  <2>3. EndCursors(PageEnd(ids)) \subseteq 0 .. N
    BY <1>0, <2>2 DEF EndCursors
  <2>4. QED
    BY <1>0, <1>1, <2>1, <2>2, <2>3 DEF IndexerFetch, IndexerTypes
<1>2. CASE IndexerFails
  BY <1>0, <1>2 DEF IndexerFails, IndexerTypes
<1>3. CASE IndexerLoaded
  <2>1. PICK a \in Answers(page) :
            /\ \/ StreamAnswer(a)
               \/ NotJson(a) /\ UNCHANGED <<indexed, streamed>>
            /\ unread' = unread \cup (Answered(page) \ Answered(a))
    BY <1>3 DEF IndexerLoaded
  <2>2. a \in Seq(Publications) /\ Answered(page) \subseteq Publications
    BY <1>0, AnswersAreIds DEF IndexerTypes, Answered
  <2>3. /\ Answered(a) \subseteq Publications
        /\ \A n \in DOMAIN a : {a[i] : i \in 1 .. n} \subseteq Publications
    BY <2>2 DEF Answered
  <2>4. streamed' \subseteq Publications /\ indexed' \in 0 .. N
    BY <1>0, <2>1, <2>3 DEF StreamAnswer, IndexerTypes
  <2>5. QED
    BY <1>0, <1>3, <2>1, <2>2, <2>4 DEF IndexerLoaded, IndexerTypes
<1>4. QED
  BY <1>1, <1>2, <1>3 DEF IndexerNext

LEMMA TypesAreParts ==
    TypeOK <=> /\ program \in {"node", "indexer"} /\ defect \in [Publications -> Defect]
               /\ NodeTypes /\ HistoryTypes /\ QueueTypes /\ IndexerTypes
BY DEF TypeOK, NodeTypes, HistoryTypes, QueueTypes, IndexerTypes

LEMMA TypesHoldAtFirst == Init => TypeOK
<1> SUFFICES ASSUME Init PROVE TypeOK
  OBVIOUS
<1>1. 0 \in 0 .. N /\ \A S : <<>> \in Seq(S)
  BY SizeAssumption
<1>2. metadata \in [{"da", "proofs"} -> [Ids -> 0 .. N]]
  BY <1>1 DEF Init, BatchInit
<1>3. QED
  BY <1>1, <1>2, DefectAssumption DEF Init, BatchInit, FailedInit, IndexerInit, TypeOK

LEMMA TypesKept == TypeOK /\ [Next]_vars => TypeOK'
<1> SUFFICES ASSUME TypeOK, [Next]_vars PROVE TypeOK'
  OBVIOUS
<1>0. /\ program \in {"node", "indexer"} /\ defect \in [Publications -> Defect]
      /\ NodeTypes /\ HistoryTypes /\ QueueTypes /\ IndexerTypes
  BY TypesAreParts
<1>p. /\ program' \in {"node", "indexer"} /\ defect' \in [Publications -> Defect]
      /\ NodeTypes' /\ HistoryTypes' /\ QueueTypes' /\ IndexerTypes'
      => TypeOK'
  BY DEF TypeOK, NodeTypes, HistoryTypes, QueueTypes, IndexerTypes
<1>1. ASSUME NodeStep PROVE TypeOK'
  <2>1. /\ program' \in {"node", "indexer"} /\ defect' \in [Publications -> Defect]
        /\ IndexerTypes'
    BY <1>0, <1>1 DEF NodeStep, indexer, IndexerTypes
  <2>2. CASE BatchStep /\ UNCHANGED failedProofs
    BY <1>0, <2>1, <2>2, BatchKeepsTypes, QueueKeepsTypes, <1>p DEF HistoryTypes
  <2>3. CASE CheckEnds
    BY <2>1, <2>3, CheckKeepsTypes, <1>p
  <2>4. CASE QueueStep /\ UNCHANGED batchVars
    <3>1. QueueTypes'
      BY <1>0, <2>4, QueueKeepsTypes
    <3>2. NodeTypes' /\ HistoryTypes'
      BY <1>0, <2>4 DEF batchVars, NodeTypes, HistoryTypes
    <3>3. QED
      BY <2>1, <3>1, <3>2, <1>p
  <2>5. CASE Restart
    BY <1>0, <2>1, <2>5, RestartKeepsTypes, <1>p DEF HistoryTypes
  <2>6. QED
    BY <1>1, <2>2, <2>3, <2>4, <2>5 DEF NodeStep
<1>2. ASSUME IndexerStep PROVE TypeOK'
  <2>1. IndexerTypes'
    BY <1>2, IndexerKeepsTypes DEF IndexerStep
  <2>2. QED
    BY <1>0, <1>2, <2>1, <1>p
       DEF IndexerStep, batchVars, failedProofs, NodeTypes, HistoryTypes, QueueTypes
<1>3. ASSUME UNCHANGED vars PROVE TypeOK'
  BY <1>0, <1>3, <1>p
     DEF vars, batchVars, failedProofs, indexer, NodeTypes, HistoryTypes, QueueTypes, IndexerTypes
<1>4. QED
  BY <1>1, <1>2, <1>3 DEF Next, Idle

\* Every variable of the node and of the indexer keeps its type, whatever Bundlr answers.
THEOREM IngestTypeCorrect == Spec => []TypeOK
<1>1. QED
  BY TypesHoldAtFirst, TypesKept, PTL DEF Spec


-------------------------------------------------------------------------------
(* What is accepted, and what is cached *)

\* Nothing but the end of a check accepts or fails anything, or adds a failed proof.
LEMMA OnlyChecksConclude ==
    ASSUME TypeOK, [Next]_vars
    PROVE  /\ UNCHANGED defect
           /\ \/ UNCHANGED <<accepted, failed>>
              \/ \E q \in Pair, late \in BOOLEAN : Conclude(q, late)
<1>1. ASSUME CheckEnds PROVE \E q \in Pair, late \in BOOLEAN : Conclude(q, late)
  <2>1. inFlight \cup strays \subseteq Pair
    BY DEF TypeOK
  <2>2. QED
    BY <1>1, <2>1 DEF CheckEnds, FinishCheck, FinishStray
<1>2. ASSUME BatchStep PROVE UNCHANGED <<accepted, failed>>
  BY <1>2, BatchKeepsTypes
<1>3. ASSUME Restart PROVE UNCHANGED <<accepted, failed>>
  BY <1>3, RestartKeepsTypes
<1>4. UNCHANGED defect
  BY DEF Next, NodeStep, IndexerStep, Idle, vars
<1>5. CASE UNCHANGED batchVars
  BY <1>4, <1>5 DEF batchVars
<1>6. BatchStep \/ CheckEnds \/ Restart \/ UNCHANGED batchVars
  BY DEF Next, NodeStep, IndexerStep, Idle, vars
<1>7. UNCHANGED <<accepted, failed>> \/ \E q \in Pair, late \in BOOLEAN : Conclude(q, late)
  BY <1>1, <1>2, <1>3, <1>5, <1>6, Zenon
<1>8. QED
  BY <1>4, <1>7

LEMMA AcceptedStaysOwn ==
    TypeOK /\ AcceptedWithOwnProofs /\ [Next]_vars => AcceptedWithOwnProofs'
<1> SUFFICES ASSUME TypeOK, AcceptedWithOwnProofs, [Next]_vars
             PROVE  AcceptedWithOwnProofs'
  OBVIOUS
<1>1. UNCHANGED defect
  BY OnlyChecksConclude
<1>2. CASE UNCHANGED <<accepted, failed>>
  BY <1>1, <1>2 DEF AcceptedWithOwnProofs
<1>3. ASSUME NEW q \in Pair, NEW late \in BOOLEAN, Conclude(q, late)
      PROVE  AcceptedWithOwnProofs'
  <2>1. CASE Errors(q) = {} /\ accepted' = accepted \cup {q}
    <3>1. q.proofs = q.id /\ defect[q.id] # "foreign" /\ defect[q.id] # "event"
      BY <2>1 DEF Errors
    <3>2. QED
      BY <1>1, <2>1, <3>1 DEF AcceptedWithOwnProofs
  <2>2. CASE UNCHANGED accepted
    BY <1>1, <2>2 DEF AcceptedWithOwnProofs
  <2>3. QED
    BY <1>3, <2>1, <2>2 DEF Conclude
<1>4. QED
  BY <1>2, <1>3, OnlyChecksConclude

\* However many publications there are, and however Bundlr orders and cuts its answers,
\* nothing is accepted with the timestamp proofs of another publication.
THEOREM OwnProofs == Spec => []AcceptedWithOwnProofs
<1>1. Init => AcceptedWithOwnProofs
  BY DEF Init, BatchInit, AcceptedWithOwnProofs
<1>2. QED
  BY <1>1, IngestTypeCorrect, AcceptedStaysOwn, PTL DEF Spec

\* A publication is cached as itself; timestamp proofs are never cached under the id of
\* a publication, which is where a check by id looks for them.
OwnInv ==
    \A t \in Publications : metadata.da[t] \in {0, t} /\ metadata.proofs[t] = 0

LEMMA CachedStaysOwn == TypeOK /\ OwnInv /\ [Next]_vars => OwnInv'
<1> SUFFICES ASSUME TypeOK, OwnInv, [Next]_vars PROVE OwnInv'
  OBVIOUS
<1>p. Publications \subseteq Ids
  BY SizeAssumption DEF Publications, Ids
<1>0. /\ metadata \in [{"da", "proofs"} -> [Ids -> 0 .. N]] /\ batch \in Seq(Publications)
      /\ Publications \subseteq Ids
  BY <1>p DEF TypeOK
<1>1. CASE UNCHANGED metadata
  BY <1>1 DEF OwnInv
<1>2. CASE PublicationsLoaded
  <2>1. PICK a \in Answers(batch) : metadata' = CachePublications(a)
    BY <1>2 DEF PublicationsLoaded
  <2>2. /\ metadata'.proofs = metadata.proofs
        /\ \A id \in Ids : metadata'.da[id] \in {id, metadata.da[id]}
    BY <1>0, <2>1 DEF CachePublications
  <2>3. QED
    BY <1>0, <2>2 DEF OwnInv
<1>3. CASE ProofsLoaded
  <2> DEFINE ok == {t \in Publications : defect[t] # "proofs"}
  <2>1. PICK a \in Answers([i \in DOMAIN batch |-> TimestampTx(batch[i])]) :
            metadata' = CacheProofs(a, ok)
    BY <1>3 DEF ProofsLoaded
  <2>2. \A id \in Answered(a) : id > N
    BY <1>0, <2>1, ProofsAnswered
  <2>3. /\ metadata'.da = metadata.da
        /\ \A id \in Ids : id \notin Answered(a) => metadata'.proofs[id] = metadata.proofs[id]
    BY <1>0, <2>1 DEF CacheProofs
  <2>4. \A t \in Publications : t \notin Answered(a)
    BY <2>2, SizeAssumption DEF Publications
  <2>5. QED
    BY <1>0, <2>3, <2>4 DEF OwnInv
<1>4. QED
  BY <1>1, <1>2, <1>3
     DEF Next, NodeStep, IndexerStep, Idle, vars, batchVars, BatchStep, FetchBatch, RequestFails,
         StartCheck, BatchChecked, SaveCursor, CheckEnds, FinishCheck, FinishStray, Restart

\* What the batches cache never makes a check by id check something else, or use the
\* timestamp proofs of something else.
THEOREM ByIdOwnProofs == Spec => []ChecksByIdUseOwnProofs
<1>1. Init => OwnInv
  BY SizeAssumption DEF Init, BatchInit, OwnInv, Publications, Ids
<1>2. OwnInv => ChecksByIdUseOwnProofs
  BY DEF OwnInv, ChecksByIdUseOwnProofs, DaPublication, TimestampProofs, GetTxDAMetadata,
         GetTxTimestampProofsMetadata
<1>3. QED
  BY <1>1, <1>2, IngestTypeCorrect, CachedStaysOwn, PTL DEF Spec


-------------------------------------------------------------------------------
(* Failed proofs *)

LEMMA ElementsAppended ==
    ASSUME NEW S, NEW s \in Seq(S), NEW x \in S
    PROVE  ElementsOf(Append(s, x)) = ElementsOf(s) \cup {x}
<1>1. /\ DOMAIN s = 1 .. Len(s) /\ Len(s) \in Nat
      /\ DOMAIN Append(s, x) = 1 .. Len(s) + 1
      /\ \A i \in 1 .. Len(s) : Append(s, x)[i] = s[i]
      /\ Append(s, x)[Len(s) + 1] = x
  OBVIOUS
<1>2. 1 .. Len(s) + 1 = 1 .. Len(s) \cup {Len(s) + 1}
  BY <1>1
<1>3. QED
  BY <1>1, <1>2 DEF ElementsOf

LEMMA ElementsTaken ==
    ASSUME NEW S, NEW s \in Seq(S), s # <<>>
    PROVE  Head(s) \in S /\ ElementsOf(s) = {Head(s)} \cup ElementsOf(Tail(s))
<1>1. /\ DOMAIN s = 1 .. Len(s) /\ Len(s) \in Nat \ {0} /\ Head(s) = s[1]
      /\ DOMAIN Tail(s) = 1 .. Len(s) - 1
      /\ \A i \in 1 .. Len(s) - 1 : Tail(s)[i] = s[i + 1]
  OBVIOUS
<1>2. ASSUME NEW x \in ElementsOf(s) PROVE x = Head(s) \/ x \in ElementsOf(Tail(s))
  <2>1. PICK i \in 1 .. Len(s) : x = s[i]
    BY <1>1 DEF ElementsOf
  <2>2. i = 1 \/ (i - 1 \in 1 .. Len(s) - 1 /\ Tail(s)[i - 1] = s[(i - 1) + 1] /\ (i - 1) + 1 = i)
    BY <1>1
  <2>3. QED
    BY <1>1, <2>1, <2>2 DEF ElementsOf
<1>3. ASSUME NEW x \in ElementsOf(Tail(s)) PROVE x \in ElementsOf(s)
  <2>1. PICK i \in 1 .. Len(s) - 1 : x = Tail(s)[i]
    BY <1>1, <1>3 DEF ElementsOf
  <2>2. i + 1 \in 1 .. Len(s) /\ x = s[i + 1]
    BY <1>1, <2>1
  <2>3. QED
    BY <1>1, <2>2 DEF ElementsOf
<1>4. Head(s) \in ElementsOf(s) /\ Head(s) \in S
  BY <1>1 DEF ElementsOf
<1>5. QED
  BY <1>2, <1>3, <1>4

OneIsWritten == \A f, g \in writing : f = g

\* What is on disk or in memory did fail, and there is no end to none of it but the
\* process stopping.
KeptInv ==
    /\ failed \subseteq files \cup InMemory \cup lost
    /\ files \cup InMemory \subseteq failed
    /\ IsFiniteSet(failed)
    /\ OneIsWritten

\* Whatever the queue does, what is on disk or in memory stays there.
LEMMA QueueKeepsAll ==
    ASSUME QueueTypes, OneIsWritten, QueueStep
    PROVE  files' \cup InMemory' = files \cup InMemory /\ lost' = lost /\ OneIsWritten'
<1>1. CASE Dequeue
  <2>1. ElementsOf(failedQueue) = {Head(failedQueue)} \cup ElementsOf(Tail(failedQueue))
    BY <1>1, ElementsTaken DEF Dequeue, QueueTypes
  <2>2. QED
    BY <1>1, <2>1 DEF Dequeue, InMemory, OneIsWritten
<1>2. CASE WriteFailedProof
  BY <1>2 DEF WriteFailedProof, InMemory, OneIsWritten
<1>3. CASE WriteFails
  <2>1. PICK f \in writing : delayed' = Append(delayed, f)
    BY <1>3 DEF WriteFails
  <2>2. f \in FailedProof
    BY DEF QueueTypes
  <2>3. ElementsOf(delayed') = ElementsOf(delayed) \cup {f}
    BY <2>1, <2>2, ElementsAppended DEF QueueTypes
  <2>4. writing = {f}
    BY DEF OneIsWritten
  <2>5. QED
    BY <1>3, <2>1, <2>3, <2>4 DEF WriteFails, InMemory, OneIsWritten
<1>4. CASE DelayOver
  <2>1. Head(delayed) \in FailedProof
        /\ ElementsOf(delayed) = {Head(delayed)} \cup ElementsOf(Tail(delayed))
    BY <1>4, ElementsTaken DEF DelayOver, QueueTypes
  <2>2. ElementsOf(failedQueue') = ElementsOf(failedQueue) \cup {Head(delayed)}
    BY <1>4, <2>1, ElementsAppended DEF DelayOver, QueueTypes
  <2>3. QED
    BY <1>4, <2>1, <2>2 DEF DelayOver, InMemory, OneIsWritten
<1>5. QED
  BY <1>1, <1>2, <1>3, <1>4 DEF QueueStep


LEMMA KeptStaysSo == TypeOK /\ KeptInv /\ [Next]_vars => KeptInv'
<1> SUFFICES ASSUME TypeOK, KeptInv, [Next]_vars PROVE KeptInv'
  OBVIOUS
<1>0. QueueTypes
  BY DEF TypeOK, QueueTypes
<1>1. ASSUME NEW q \in Pair, NEW late \in BOOLEAN, Conclude(q, late) PROVE KeptInv'
  <2>1. CASE UNCHANGED <<failed, failedProofs>>
    BY <2>1 DEF failedProofs, KeptInv, InMemory, OneIsWritten
  <2>2. CASE \E f \in FailedProof : failed' = failed \cup {f} /\ Enqueue(f)
    <3>1. PICK f \in FailedProof : failed' = failed \cup {f} /\ Enqueue(f)
      BY <2>2
    <3>2. ElementsOf(failedQueue') = ElementsOf(failedQueue) \cup {f}
      BY <1>0, <3>1, ElementsAppended DEF Enqueue, QueueTypes
    <3>3. InMemory' = InMemory \cup {f} /\ UNCHANGED <<writing, files, lost>>
      BY <3>1, <3>2 DEF Enqueue, InMemory
    <3>4. IsFiniteSet(failed')
      BY <3>1, FS_AddElement DEF KeptInv
    <3>5. QED
      BY <3>1, <3>3, <3>4 DEF KeptInv, OneIsWritten
  <2>3. QED
    BY <1>1, <2>1, <2>2, ConcludeEnqueues
<1>2. CASE UNCHANGED <<accepted, failed>> /\ UNCHANGED failedProofs
  BY <1>2 DEF failedProofs, KeptInv, InMemory, OneIsWritten
<1>3. CASE QueueStep /\ UNCHANGED batchVars
  BY <1>0, <1>3, QueueKeepsAll DEF KeptInv, batchVars
<1>4. CASE Restart
  <2>1. LoseQueue /\ UNCHANGED failed
    BY <1>4 DEF Restart
  <2>2. files \subseteq files' /\ files' \subseteq files \cup writing
        /\ lost' = lost \cup (InMemory \ files') /\ writing' = {}
    BY <2>1 DEF LoseQueue
  <2>3. writing \subseteq InMemory /\ InMemory' = {}
    BY <2>1 DEF LoseQueue, InMemory, ElementsOf
  <2>4. QED
    BY <2>1, <2>2, <2>3 DEF KeptInv, OneIsWritten
<1>5. CASE CheckEnds
  <2>1. \E q \in Pair, late \in BOOLEAN : Conclude(q, late)
    <3>1. inFlight \cup strays \subseteq Pair
      BY DEF TypeOK
    <3>2. QED
      BY <1>5, <3>1 DEF CheckEnds, FinishCheck, FinishStray
  <2>2. QED
    BY <1>1, <2>1
<1>6. CASE BatchStep /\ UNCHANGED failedProofs
  BY <1>2, <1>6, BatchKeepsTypes
<1>7. CASE UNCHANGED <<batchVars, failedProofs>>
  BY <1>2, <1>7 DEF batchVars
<1>8. QED
  BY <1>3, <1>4, <1>5, <1>6, <1>7 DEF Next, NodeStep, IndexerStep, Idle, vars

\* A failed proof is never lost while the process runs, however often writing fails and
\* whatever the queue and its delays do, and the watcher of failed submissions counts
\* none that did not fail.
THEOREM FailuresKept == Spec => []FailureKept
<1>1. Init => KeptInv
  <2> SUFFICES ASSUME Init PROVE KeptInv
    OBVIOUS
  <2>1. failed = {} /\ files = {} /\ writing = {} /\ failedQueue = <<>> /\ delayed = <<>>
    BY DEF Init, BatchInit, FailedInit
  <2>2. InMemory = {}
    BY <2>1 DEF InMemory, ElementsOf
  <2>3. QED
    BY <2>1, <2>2, FS_EmptySet DEF KeptInv, OneIsWritten
<1>2. KeptInv => FailureKept
  <2> SUFFICES ASSUME KeptInv, NEW reason \in Reported
               PROVE  Cardinality({f \in files : f.reason = reason})
                          <= Cardinality({f \in failed : f.reason = reason})
    BY DEF KeptInv, FailureKept, FailedResults
  <2> DEFINE S == {f \in failed : f.reason = reason}
             T == {f \in files : f.reason = reason}
  <2>1. T \subseteq S /\ S \subseteq failed
    BY DEF KeptInv
  <2>2. IsFiniteSet(S)
    BY <2>1, FS_Subset DEF KeptInv
  <2>3. QED
    BY <2>1, <2>2, FS_Subset
<1>3. QED
  BY <1>1, <1>2, IngestTypeCorrect, KeptStaysSo, PTL DEF Spec


-------------------------------------------------------------------------------
(* What the indexer's cursor has passed *)

\* Between two awaits the indexer holds a page that begins at its cursor.
PageInv ==
    page # <<>> =>
        /\ pageEnd = 0 \/ \A t \in Publications :
              indexed < t /\ t <= pageEnd /\ IsListed(t) => t \in Answered(page)
        /\ \A t \in Answered(page) : IsListed(t)

StreamedInv == PassedIsStreamed /\ PageInv

LEMMA StreamedStaysSo == TypeOK /\ StreamedInv /\ [Next]_vars => StreamedInv'
<1> SUFFICES ASSUME TypeOK, StreamedInv, [Next]_vars PROVE StreamedInv'
  OBVIOUS
<1>0. /\ indexed \in 0 .. N /\ pageEnd \in 0 .. N /\ page \in Seq(Publications) /\ N \in Nat
      /\ indexed \in Nat
  BY SizeAssumption DEF TypeOK
<1>1. UNCHANGED defect /\ \A t : IsListed(t)' <=> IsListed(t)
  BY DEF Next, NodeStep, IndexerStep, Idle, vars, IsListed
<1>2. CASE UNCHANGED indexer
  BY <1>1, <1>2 DEF indexer, StreamedInv, PassedIsStreamed, PageInv
<1>3. CASE IndexerFetch
  <2>1. PICK ids \in Pages(indexed) : /\ page' = ids
                                      /\ pageEnd' \in EndCursors(PageEnd(ids))
    BY <1>3 DEF IndexerFetch
  <2>2. Answered(ids) = {t \in Publications : indexed < t /\ t <= PageEnd(ids) /\ IsListed(t)}
    BY <1>0, PagesHoldWhatIsListed
  <2>3. pageEnd' = 0 \/ pageEnd' = PageEnd(ids)
    BY <2>1 DEF EndCursors
  <2>4. UNCHANGED <<indexed, streamed, unread>>
    BY <1>3 DEF IndexerFetch
  <2>5. PassedIsStreamed'
    BY <1>1, <2>4 DEF StreamedInv, PassedIsStreamed
  <2>6. PageInv'
    BY <1>1, <2>1, <2>2, <2>3, <2>4 DEF PageInv
  <2>7. QED
    BY <2>5, <2>6 DEF StreamedInv
<1>4. CASE IndexerFails
  BY <1>1, <1>4 DEF IndexerFails, StreamedInv, PassedIsStreamed, PageInv
<1>5. CASE IndexerLoaded
  <2>1. PICK a \in Answers(page) :
            /\ \/ StreamAnswer(a)
               \/ NotJson(a) /\ UNCHANGED <<indexed, streamed>>
            /\ unread' = unread \cup (Answered(page) \ Answered(a))
    BY <1>5 DEF IndexerLoaded
  <2>2. page # <<>> /\ page' = <<>>
    BY <1>5 DEF IndexerLoaded
  <2>3. PageInv'
    BY <2>2 DEF PageInv
  <2>4. Answered(a) \subseteq Answered(page)
    BY <1>0, AnswersAreIds
  <2>5. \A t \in Answered(page) : IsListed(t)
    BY <2>2 DEF StreamedInv, PageInv
  <2>6. CASE streamed' = streamed \cup Answered(a) /\ indexed' = pageEnd
    <3>1. ASSUME NEW t \in 1 .. pageEnd, IsListed(t) PROVE t \in streamed' \cup unread'
      <4>1. CASE t \in 1 .. indexed
        BY <2>1, <2>6, <3>1, <4>1 DEF StreamedInv, PassedIsStreamed
      <4>2. CASE t \notin 1 .. indexed
        <5>1. t \in Publications /\ indexed < t /\ t <= pageEnd /\ pageEnd # 0
          BY <1>0, <4>2 DEF Publications
        <5>2. t \in Answered(page)
          BY <2>2, <3>1, <5>1 DEF StreamedInv, PageInv
        <5>3. QED
          BY <2>1, <2>6, <5>2
      <4>3. QED
        BY <4>1, <4>2
    <3>2. \A t \in streamed' : IsListed(t)
      BY <2>4, <2>5, <2>6 DEF StreamedInv, PassedIsStreamed
    <3>3. PassedIsStreamed'
      BY <1>1, <2>6, <3>1, <3>2 DEF PassedIsStreamed
    <3>4. QED
      BY <2>3, <3>3 DEF StreamedInv
  <2>7. CASE UNCHANGED indexed /\ \E n \in DOMAIN a : streamed' = streamed \cup {a[i] : i \in 1 .. n}
    <3>1. PICK n \in DOMAIN a : streamed' = streamed \cup {a[i] : i \in 1 .. n}
      BY <2>7
    <3>2. a \in Seq(Publications)
      BY <1>0, AnswersAreIds
    <3>3. {a[i] : i \in 1 .. n} \subseteq Answered(a)
      BY <3>1, <3>2 DEF Answered
    <3>4. PassedIsStreamed'
      BY <1>1, <2>1, <2>4, <2>5, <2>7, <3>1, <3>3 DEF StreamedInv, PassedIsStreamed
    <3>5. QED
      BY <2>3, <3>4 DEF StreamedInv
  <2>8. CASE UNCHANGED <<indexed, streamed>>
    BY <1>1, <2>1, <2>3, <2>8 DEF StreamedInv, PassedIsStreamed
  <2>9. QED
    BY <2>1, <2>6, <2>7, <2>8 DEF StreamAnswer
<1>6. QED
  BY <1>2, <1>3, <1>4, <1>5 DEF Next, NodeStep, IndexerStep, IndexerNext, Idle, vars

\* However long the list of publications, the indexer skips nothing and streams nothing
\* that no submitter put there.
THEOREM NothingSkipped == Spec => []PassedIsStreamed
<1>1. Init => StreamedInv
  BY DEF Init, IndexerInit, StreamedInv, PassedIsStreamed, PageInv
<1>2. StreamedInv => PassedIsStreamed
  BY DEF StreamedInv
<1>3. QED
  BY <1>1, <1>2, IngestTypeCorrect, StreamedStaysSo, PTL DEF Spec


-------------------------------------------------------------------------------
(* What the watcher's cursor has passed *)

DealtWith(t) == t \in leftOut \/ (Checked(t) /\ ~Unreadable(t))

\* What the cursor will have passed when it moves to the end of the batch.
Ahead(t) == t \in Publications /\ endCursor < t /\ t <= next /\ IsListed(t)

HasPair(t) == \E q \in waiting \cup inFlight : q.id = t

BatchInv ==
    /\ pc = "publications" => \A t : Ahead(t) => t \in Answered(batch)
    /\ pc = "proofs" => \A t : Ahead(t) => t \in leftOut \cup Answered(batch)
    /\ pc = "proofs" => \A t \in Answered(batch) : defect[t] \notin {"json", "receipt"}
    /\ pc = "check" => \A t : Ahead(t) => DealtWith(t) \/ HasPair(t)
    /\ \A q \in waiting \cup inFlight : defect[q.id] \notin {"json", "receipt"}

\* The two cursors: a restart goes on from the one in the database.
CursorInv ==
    \A t \in Publications :
        (t <= endCursor \/ t <= savedCursor) /\ IsListed(t) => DealtWith(t)

PassedInv == CursorInv /\ BatchInv

\* What was dealt with stays so.
LEMMA DealtWithForGood ==
    ASSUME UNCHANGED defect, leftOut \subseteq leftOut', accepted \subseteq accepted',
           failed \subseteq failed', NEW t, DealtWith(t)
    PROVE  DealtWith(t)'
BY DEF DealtWith, Checked, Unreadable

LEMMA CursorsStay ==
    ASSUME UNCHANGED defect, leftOut \subseteq leftOut', accepted \subseteq accepted',
           failed \subseteq failed', CursorInv, UNCHANGED <<endCursor, savedCursor>>
    PROVE  CursorInv'
<1> SUFFICES ASSUME NEW t \in Publications,
                    (t <= endCursor \/ t <= savedCursor) /\ IsListed(t)
             PROVE  DealtWith(t)'
  BY DEF CursorInv, IsListed
<1>1. DealtWith(t)
  BY DEF CursorInv
<1>2. QED
  BY <1>1, DealtWithForGood

\* A check that ends has checked its publication.
LEMMA ConcludeChecks ==
    ASSUME NEW q \in Pair, NEW late \in BOOLEAN, Conclude(q, late)
    PROVE  Checked(q.id)' /\ accepted \subseteq accepted' /\ failed \subseteq failed'
BY ConcludeEnqueues DEF Checked

LEMMA FinishKeepsPassed ==
    ASSUME TypeOK, PassedInv, CheckEnds, UNCHANGED defect
    PROVE  PassedInv'
<1>0. inFlight \subseteq Pair /\ strays \subseteq Pair
  BY DEF TypeOK
<1>1. PICK q \in inFlight \cup strays, late \in BOOLEAN : FinishCheck(q, late) \/ FinishStray(q, late)
  BY DEF CheckEnds
<1>2. Checked(q.id)' /\ accepted \subseteq accepted' /\ failed \subseteq failed'
  BY <1>0, <1>1, ConcludeChecks DEF FinishCheck, FinishStray
<1>3. UNCHANGED <<endCursor, savedCursor, leftOut, batch>>
  BY <1>1 DEF FinishCheck, FinishStray
<1>4. CursorInv'
  BY <1>2, <1>3, CursorsStay DEF PassedInv
<1>5. \A t : DealtWith(t) => DealtWith(t)'
  BY <1>2, <1>3, DealtWithForGood
<1>6. CASE FinishStray(q, late)
  <2>1. UNCHANGED <<pc, next, waiting, inFlight>>
    BY <1>6 DEF FinishStray
  <2>2. \A t : (Ahead(t)' <=> Ahead(t)) /\ (HasPair(t)' <=> HasPair(t))
    BY <1>3, <2>1 DEF Ahead, HasPair, IsListed
  <2>3. BatchInv'
    BY <1>3, <1>5, <2>1, <2>2 DEF PassedInv, BatchInv
  <2>4. QED
    BY <1>4, <2>3 DEF PassedInv
<1>7. CASE FinishCheck(q, late) /\ defect[q.id] = "event"
  <2>1. pc' = "fetch" /\ waiting' = {} /\ inFlight' = {}
    BY <1>7 DEF FinishCheck
  <2>2. QED
    BY <1>4, <2>1 DEF PassedInv, BatchInv
<1>8. CASE FinishCheck(q, late) /\ defect[q.id] # "event"
  <2>1. inFlight' = inFlight \ {q} /\ UNCHANGED <<pc, next, waiting>> /\ q \in inFlight
    BY <1>8 DEF FinishCheck
  <2>2. DealtWith(q.id)'
    BY <1>2, <1>8, <2>1 DEF PassedInv, BatchInv, DealtWith, Unreadable
  <2>3. \A t : Ahead(t)' <=> Ahead(t)
    BY <1>3, <2>1 DEF Ahead, IsListed
  <2>4. \A t : HasPair(t) => t = q.id \/ HasPair(t)'
    BY <2>1 DEF HasPair
  <2>5. BatchInv'
    BY <1>3, <1>5, <2>1, <2>2, <2>3, <2>4 DEF PassedInv, BatchInv
  <2>6. QED
    BY <1>4, <2>5 DEF PassedInv
<1>9. QED
  BY <1>1, <1>6, <1>7, <1>8

LEMMA LoadedKeepsPassed ==
    ASSUME TypeOK, PassedInv, UNCHANGED defect, PublicationsLoaded \/ ProofsLoaded
    PROVE  PassedInv'
<1>0. batch \in Seq(Publications)
  BY DEF TypeOK
<1>1. CASE PublicationsLoaded
  <2>1. PICK a \in Answers(batch) :
            IF \E i \in DOMAIN a : defect[a[i]] \in {"json", "receipt"}
            THEN StartOver
            ELSE /\ batch' = a
                 /\ leftOut' = leftOut \cup (Answered(batch) \ Answered(a))
                 /\ pc' = "proofs"
                 /\ UNCHANGED <<endCursor, savedCursor, next, waiting, inFlight, strays,
                                accepted, failed, bounds>>
    BY <1>1 DEF PublicationsLoaded
  <2>2. CASE StartOver
    <3>1. CursorInv'
      BY <2>2, CursorsStay DEF StartOver, PassedInv
    <3>2. QED
      BY <2>2, <3>1 DEF StartOver, PassedInv, BatchInv
  <2>3. CASE ~\E i \in DOMAIN a : defect[a[i]] \in {"json", "receipt"}
    <3>1. /\ batch' = a /\ pc' = "proofs"
          /\ leftOut' = leftOut \cup (Answered(batch) \ Answered(a))
          /\ UNCHANGED <<endCursor, savedCursor, next, waiting, inFlight, accepted, failed>>
      BY <2>1, <2>3
    <3>2. CursorInv'
      BY <3>1, CursorsStay DEF PassedInv
    <3>3. \A t \in Answered(a) : defect[t] \notin {"json", "receipt"}
      BY <2>3 DEF Answered
    <3>4. \A t : Ahead(t)' => t \in Answered(batch)
      BY <1>1, <3>1 DEF Ahead, IsListed, PassedInv, BatchInv, PublicationsLoaded
    <3>5. BatchInv'
      BY <3>1, <3>3, <3>4 DEF PassedInv, BatchInv
    <3>6. QED
      BY <3>2, <3>5 DEF PassedInv
  <2>4. QED
    BY <2>1, <2>2, <2>3
<1>2. CASE ProofsLoaded
  <2>1. PICK a \in Answers([i \in DOMAIN batch |-> TimestampTx(batch[i])]) :
            \/ pc' = "fetch" /\ next' = 0 /\ UNCHANGED <<waiting, leftOut>>
            \/ /\ waiting' = PairUp(a)
               /\ leftOut' = leftOut \cup {batch[i] : i \in DOMAIN batch \ DOMAIN a}
               /\ pc' = "check" /\ UNCHANGED next
    BY <1>2 DEF ProofsLoaded
  <2>2. pc = "proofs" /\ UNCHANGED <<endCursor, savedCursor, inFlight, accepted, failed>>
    BY <1>2 DEF ProofsLoaded
  <2>3. CursorInv'
    BY <2>1, <2>2, CursorsStay DEF PassedInv
  <2>4. CASE pc' = "fetch" /\ UNCHANGED waiting
    BY <2>2, <2>3, <2>4 DEF PassedInv, BatchInv
  <2>5. CASE /\ waiting' = PairUp(a)
             /\ leftOut' = leftOut \cup {batch[i] : i \in DOMAIN batch \ DOMAIN a}
             /\ pc' = "check" /\ UNCHANGED next
    <3>1. \A i \in DOMAIN a : i \in DOMAIN batch /\ batch[i] \in Answered(batch)
      BY <1>0, ProofsAnswered DEF Answered
    <3>2. \A q \in waiting' \cup inFlight' : defect'[q.id] \notin {"json", "receipt"}
      BY <2>2, <2>5, <3>1 DEF PairUp, PassedInv, BatchInv
    <3>3. ASSUME NEW t, Ahead(t)' PROVE DealtWith(t)' \/ HasPair(t)'
      <4>1. Ahead(t)
        BY <2>2, <2>5, <3>3 DEF Ahead, IsListed
      <4>2. CASE t \in leftOut
        BY <2>5, <4>2 DEF DealtWith
      <4>3. CASE t \in Answered(batch)
        <5>1. PICK i \in DOMAIN batch : t = batch[i]
          BY <4>3 DEF Answered
        <5>2. CASE i \in DOMAIN a
          <6>1. [id |-> batch[i], proofs |-> a[i] - N] \in waiting'
            BY <2>5, <5>2 DEF PairUp
          <6>2. QED
            BY <5>1, <6>1 DEF HasPair
        <5>3. CASE i \notin DOMAIN a
          BY <2>5, <5>1, <5>3 DEF DealtWith
        <5>4. QED
          BY <5>2, <5>3
      <4>4. QED
        BY <2>2, <4>1, <4>2, <4>3 DEF PassedInv, BatchInv
    <3>4. QED
      BY <2>3, <2>5, <3>2, <3>3 DEF PassedInv, BatchInv
  <2>6. QED
    BY <2>1, <2>4, <2>5
<1>3. QED
  BY <1>1, <1>2

LEMMA PassedStaysSo == TypeOK /\ PassedInv /\ [Next]_vars => PassedInv'
<1> SUFFICES ASSUME TypeOK, PassedInv, [Next]_vars PROVE PassedInv'
  OBVIOUS
<1>0. UNCHANGED defect /\ endCursor \in Nat /\ next \in Nat /\ savedCursor \in Nat
  <2>1. endCursor \in 0 .. N /\ next \in 0 .. N /\ savedCursor \in 0 .. N /\ N \in Nat
    BY SizeAssumption DEF TypeOK
  <2>2. QED
    BY <2>1, OnlyChecksConclude
<1>1. CASE UNCHANGED batchVars
  <2>1. UNCHANGED <<pc, endCursor, savedCursor, batch, next, waiting, inFlight, leftOut, accepted, failed>>
    BY <1>1 DEF batchVars
  <2>2. \A t : DealtWith(t)' <=> DealtWith(t)
    BY <1>0, <2>1 DEF DealtWith, Checked, Unreadable
  <2>3. \A t : (Ahead(t)' <=> Ahead(t)) /\ (HasPair(t)' <=> HasPair(t)) /\ (IsListed(t)' <=> IsListed(t))
    BY <1>0, <2>1 DEF Ahead, HasPair, IsListed
  <2>4. QED
    BY <1>0, <2>1, <2>2, <2>3 DEF PassedInv, CursorInv, BatchInv
<1>2. CASE FetchBatch
  <2>1. PICK ids \in Pages(endCursor) : batch' = ids /\ next' \in {0, PageEnd(ids)}
    BY <1>2 DEF FetchBatch
  <2>2. Answered(ids) = {t \in Publications : endCursor < t /\ t <= PageEnd(ids) /\ IsListed(t)}
    BY <1>0, PagesHoldWhatIsListed
  <2>3. pc' = "publications"
        /\ UNCHANGED <<endCursor, savedCursor, waiting, inFlight, leftOut, accepted, failed>>
    BY <1>2 DEF FetchBatch
  <2>4. CursorInv'
    BY <1>0, <2>3, CursorsStay DEF PassedInv
  <2>5. \A t : Ahead(t)' => t \in Answered(ids)
    BY <1>0, <2>1, <2>2, <2>3 DEF Ahead, IsListed, Publications
  <2>6. QED
    BY <1>0, <2>1, <2>3, <2>4, <2>5 DEF PassedInv, BatchInv
<1>3. CASE RequestFails
  <2>1. pc' = "fetch" /\ UNCHANGED <<endCursor, savedCursor, waiting, inFlight, leftOut, accepted, failed>>
    BY <1>3 DEF RequestFails, StartOver
  <2>2. CursorInv'
    BY <1>0, <2>1, CursorsStay DEF PassedInv
  <2>3. QED
    BY <1>0, <2>1, <2>2 DEF PassedInv, BatchInv
<1>4. CASE PublicationsLoaded \/ ProofsLoaded
  BY <1>0, <1>4, LoadedKeepsPassed
<1>5. ASSUME NEW q \in waiting, StartCheck(q) PROVE PassedInv'
  <2>1. waiting' = waiting \ {q} /\ inFlight' = inFlight \cup {q}
        /\ UNCHANGED <<pc, endCursor, savedCursor, batch, next, leftOut, accepted, failed>>
    BY <1>5 DEF StartCheck
  <2>2. CursorInv'
    BY <1>0, <2>1, CursorsStay DEF PassedInv
  <2>3. waiting' \cup inFlight' = waiting \cup inFlight
    BY <2>1
  <2>4. \A t : DealtWith(t) => DealtWith(t)'
    BY <1>0, <2>1, DealtWithForGood
  <2>5. \A t : (Ahead(t)' <=> Ahead(t)) /\ (HasPair(t)' <=> HasPair(t))
    BY <1>0, <2>1, <2>3 DEF Ahead, HasPair, IsListed
  <2>6. BatchInv'
    BY <1>0, <2>1, <2>3, <2>4, <2>5 DEF PassedInv, BatchInv
  <2>7. QED
    BY <2>2, <2>6 DEF PassedInv
<1>6. CASE BatchChecked
  <2>1. /\ pc = "check" /\ waiting = {} /\ inFlight = {} /\ endCursor' = next /\ pc' = "save"
        /\ UNCHANGED <<savedCursor, waiting, inFlight, leftOut, accepted, failed>>
    BY <1>6 DEF BatchChecked
  <2>2. \A t : DealtWith(t) => DealtWith(t)'
    BY <1>0, <2>1, DealtWithForGood
  <2>3. ASSUME NEW t \in Publications, t <= next, IsListed(t) PROVE DealtWith(t)
    <3>1. CASE t <= endCursor
      BY <2>3, <3>1 DEF PassedInv, CursorInv
    <3>2. CASE Ahead(t)
      BY <2>1, <3>2 DEF PassedInv, BatchInv, HasPair
    <3>3. t \in Nat
      BY SizeAssumption DEF Publications
    <3>4. QED
      BY <1>0, <2>3, <3>1, <3>2, <3>3 DEF Ahead
  <2>4. CursorInv'
    BY <1>0, <2>1, <2>2, <2>3 DEF PassedInv, CursorInv, IsListed
  <2>5. QED
    BY <2>1, <2>4 DEF PassedInv, BatchInv
<1>7. CASE SaveCursor \/ Restart
  <2>1. /\ pc' = "fetch" /\ endCursor' \in {endCursor, savedCursor}
        /\ savedCursor' \in {endCursor, savedCursor}
        /\ UNCHANGED <<leftOut, accepted, failed>>
        /\ waiting' \cup inFlight' \subseteq waiting \cup inFlight
    BY <1>7 DEF SaveCursor, Restart, GetLastEndCursor
  <2>2. \A t : DealtWith(t) => DealtWith(t)'
    BY <1>0, <2>1, DealtWithForGood
  <2>3. CursorInv'
    BY <1>0, <2>1, <2>2 DEF PassedInv, CursorInv, IsListed
  <2>4. QED
    BY <1>0, <2>1, <2>3 DEF PassedInv, BatchInv
<1>8. CASE CheckEnds
  BY <1>0, <1>8, FinishKeepsPassed
<1>9. QED
  BY <1>1, <1>2, <1>3, <1>4, <1>5, <1>6, <1>7, <1>8
     DEF Next, NodeStep, IndexerStep, Idle, BatchStep, vars

\* For any number of publications with any defects: wherever the process stops, and
\* wherever it starts again, the watcher has not passed what it did not deal with.
THEOREM NothingPassed == Spec => []PassedIsDealtWith
<1>1. Init => PassedInv
  BY SizeAssumption DEF Init, BatchInit, PassedInv, CursorInv, BatchInv, Publications
<1>2. TypeOK /\ PassedInv => PassedIsDealtWith
  <2> SUFFICES ASSUME TypeOK, PassedInv, NEW t \in 1 .. endCursor, IsListed(t)
               PROVE  t \in leftOut \/ (Checked(t) /\ ~Unreadable(t))
    BY DEF PassedIsDealtWith
  <2>1. t \in Publications /\ t <= endCursor
    BY SizeAssumption DEF TypeOK, Publications
  <2>2. QED
    BY <2>1 DEF PassedInv, CursorInv, DealtWith
<1>3. QED
  BY <1>1, <1>2, IngestTypeCorrect, PassedStaysSo, PTL DEF Spec


===============================================================================
